---- MODULE Spec2Model ----
(***************************************************************************)
(* Model of the graph-to-program compiler of graph-abstract-code-gen:      *)
(*   utils.py   topological_sort, convert_repr, get_arg_val,               *)
(*              get_execution_chain, get_substack_blocks                   *)
(*   main.py    pipeline (program emission) and the run of the emitted     *)
(*              program                                                    *)
(*   scratch.py the runtime blocks and ScratchProgram.execute              *)
(*                                                                         *)
(* Three specifications share the variables:                               *)
(*   SpecTopo     topological_sort applied to every small edge-list graph  *)
(*   SpecConvert  convert_repr applied to small adjacency-form graphs      *)
(*   Spec         pipeline on a typed graph, then the run of its output    *)
(***************************************************************************)
EXTENDS Integers, Sequences, FiniteSets, TLC

VARIABLES
    pc,             \* position: which operation has been applied
    graph,          \* canonical edge-list graph {"nodes": ..., "edges": ...}
    ordered_ids,    \* outcome of topological_sort(graph)
    agent_b_graph,  \* adjacency-form graph handed to convert_repr
    node_reference, \* schema table handed to convert_repr
    agent_a_graph,  \* outcome of convert_repr
    wiring,         \* the connections the adjacency form was written from
    out_file,       \* what pipeline wrote to filepath
    run             \* outcome of running the emitted program

vars == <<pc, graph, ordered_ids, agent_b_graph, node_reference,
          agent_a_graph, wiring, out_file, run>>

(***************************************************************************)
(* Bounds                                                                  *)
(***************************************************************************)
MaxEdges == 3
MaxTriggers == 2
MaxStmts == 2
MaxProducers == 2  \* edges into one data port of a statement
MaxTurns == 3      \* turn blocks evaluated one after another
MaxScripts == 2    \* scripts added to one program
MaxBody == 2       \* blocks in one body list of a control block
MaxWires == 2      \* wires between the two nodes of an adjacency-form graph
MaxParsed == 20     \* numeric strings "-20" .. "20" are the ones int()/float() parse

(***************************************************************************)
(* Sequence helpers                                                        *)
(***************************************************************************)
Range(s) == {s[i] : i \in DOMAIN s}

SeqsUpTo(S, n) == UNION {[1..k -> S] : k \in 0..n}

IndexOf(s, x) == IF \E i \in DOMAIN s : s[i] = x
                 THEN CHOOSE i \in DOMAIN s : s[i] = x /\ \A j \in 1..(i-1) : s[j] # x
                 ELSE 0

Count(s, x) == Cardinality({i \in DOMAIN s : s[i] = x})

(***************************************************************************)
(* Graph data (utils.py / agents.py edge and node shapes)                  *)
(***************************************************************************)
Node(id, name, value) == [id |-> id, name |-> name, value |-> value]

Edge(o, op, i, ip) ==
    [outNodeID |-> o, outPortID |-> op, inNodeID |-> i, inPortID |-> ip]

NodeIDsOf(g) == {g.nodes[k].id : k \in DOMAIN g.nodes}

\* Every id that the edge list or the node table mentions.
MentionedIDs(g) ==
    NodeIDsOf(g) \cup {g.edges[k].outNodeID : k \in DOMAIN g.edges}
                 \cup {g.edges[k].inNodeID : k \in DOMAIN g.edges}

(***************************************************************************)
(* topological_sort (utils.py:5-41)                                        *)
(***************************************************************************)
\* lines 12-20: in_degree after the two initial loops (defaultdict(int)).
in_degree_of(g) ==
    [n \in MentionedIDs(g) |->
        Cardinality({k \in DOMAIN g.edges : g.edges[k].inNodeID = n})]

\* lines 15-19: adj_list[n], the in-nodes of n's out-edges in edge-list order.
adj_list_of(g, n) ==
    LET outs == SelectSeq(g.edges, LAMBDA e : e.outNodeID = n)
    IN  [k \in DOMAIN outs |-> outs[k].inNodeID]

\* lines 22-25: the initial queue, the declared nodes of in-degree 0 in
\* declaration order.
initial_queue(g) ==
    LET ids == [k \in DOMAIN g.nodes |-> g.nodes[k].id]
    IN  SelectSeq(ids, LAMBDA n : in_degree_of(g)[n] = 0)

\* A faulty variant of relax, which C1 must tell from relax: the in-degree is
\* cleared instead of decremented, so a neighbour is queued as soon as the
\* first of its predecessors is emitted.
RECURSIVE relax_first_visit(_, _, _)
relax_first_visit(neighbors, deg, queue) ==
    IF neighbors = <<>> THEN [deg |-> deg, queue |-> queue]
    ELSE IF deg[Head(neighbors)] > 0
    THEN relax_first_visit(Tail(neighbors), [deg EXCEPT ![Head(neighbors)] = 0],
                           Append(queue, Head(neighbors)))
    ELSE relax_first_visit(Tail(neighbors), deg, queue)

\* lines 33-36: the inner loop over adj_list[current].
RECURSIVE relax(_, _, _)
relax(neighbors, deg, queue) ==
    IF neighbors = <<>> THEN [deg |-> deg, queue |-> queue]
    ELSE LET nb   == Head(neighbors)
             deg2 == [deg EXCEPT ![nb] = @ - 1]
         IN  relax(Tail(neighbors), deg2,
                   IF deg2[nb] = 0 THEN Append(queue, nb) ELSE queue)

\* lines 29-36: the while loop.
RECURSIVE kahn_loop(_, _, _, _)
kahn_loop(g, queue, result, deg) ==
    IF queue = <<>> THEN result
    ELSE LET current == Head(queue)
             r == relax(adj_list_of(g, current), deg, Tail(queue))
         IN  kahn_loop(g, r.queue, Append(result, current), r.deg)

\* lines 38-41: the length test and the return.
kahn_verdict(g, result) ==
    IF Len(result) # Len(g.nodes)
    THEN [err |-> "ValueError: Graph is not a DAG", ids |-> <<>>]
    ELSE [err |-> "none", ids |-> result]

\* A faulty variant of topological_sort, which C25 must tell from
\* topological_sort: the nodes are returned in the order of their declaration.
topological_sort_declared(g) ==
    [err |-> "none", ids |-> [k \in DOMAIN g.nodes |-> g.nodes[k].id]]

topological_sort(g) ==
    kahn_verdict(g, kahn_loop(g, initial_queue(g), <<>>, in_degree_of(g)))

(***************************************************************************)
(* Graph predicates used to state the claims                               *)
(***************************************************************************)
EdgePairs(g) == {<<g.edges[k].outNodeID, g.edges[k].inNodeID>> : k \in DOMAIN g.edges}

\* Nodes reachable from n by one or more edges.
RECURSIVE ReachFrom(_, _)
ReachFrom(g, S) ==
    LET T == S \cup {p[2] : p \in {q \in EdgePairs(g) : q[1] \in S}}
    IN  IF T = S THEN S ELSE ReachFrom(g, T)

Successors(g, n) == {p[2] : p \in {q \in EdgePairs(g) : q[1] = n}}

HasCycle(g) ==
    \E n \in MentionedIDs(g) :
        Successors(g, n) # {} /\ n \in ReachFrom(g, Successors(g, n))

EdgesDeclared(g) ==
    \A k \in DOMAIN g.edges :
        g.edges[k].outNodeID \in NodeIDsOf(g) /\ g.edges[k].inNodeID \in NodeIDsOf(g)

(***************************************************************************)
(* Python values: ints, integer-valued floats, strings, bools, None and     *)
(* references to runtime blocks.  q records the quote characters a string   *)
(* holds (0 none, 1 single quotes, 2 both), which is all repr() reads.      *)
(***************************************************************************)
PyV(t, n, s, q) == [t |-> t, n |-> n, s |-> s, q |-> q]
IntV(n)   == PyV("int", n, "", 0)
FloatV(n) == PyV("float", n, "", 0)
StrV(s)   == PyV("str", 0, s, 0)
BoolV(b)  == PyV("bool", IF b THEN 1 ELSE 0, "", 0)
NoneV     == PyV("None", 0, "", 0)
BlockV(id) == PyV("block", 0, id, 0)

(***************************************************************************)
(* The reference catalog REF = ref-nodes/proposed.json, restricted to the  *)
(* kinds used here.  Port ids are the upper-case forms of the constructor  *)
(* parameters of scratch.py, which pipeline lower-cases (main.py:71).      *)
(***************************************************************************)
Schema(ins, flds, outs) == [inPorts |-> ins, fields |-> flds, outPorts |-> outs]

REF ==
    [WhenFlagClicked  |-> Schema(<<>>, <<>>, <<"THEN">>),
     WhenKeyPressed   |-> Schema(<<>>, <<"KEY_OPTION">>, <<"THEN">>),
     MoveSteps        |-> Schema(<<"EXEC", "STEPS">>, <<>>, <<"THEN">>),
     SetVariable      |-> Schema(<<"EXEC", "VALUE">>, <<"VARIABLE">>, <<"THEN">>),
     ChangeVariableBy |-> Schema(<<"EXEC", "VALUE">>, <<"VARIABLE">>, <<"THEN">>),
     If               |-> Schema(<<"EXEC", "CONDITION">>, <<>>, <<"SUBSTACK", "THEN">>),
     MouseDown        |-> Schema(<<>>, <<>>, <<"VALUE">>),
     Equals           |-> Schema(<<"OPERAND1", "OPERAND2">>, <<>>, <<"VALUE">>)]

\* port_id.lower() (main.py:71)
lower(port_id) ==
    CASE port_id = "STEPS"      -> "steps"
      [] port_id = "VALUE"      -> "value"
      [] port_id = "VARIABLE"   -> "variable"
      [] port_id = "KEY_OPTION" -> "key_option"
      [] port_id = "CONDITION"  -> "condition"
      [] port_id = "OPERAND1"   -> "operand1"
      [] port_id = "OPERAND2"   -> "operand2"
      [] port_id = "EXEC"       -> "exec"
      [] OTHER                  -> port_id

(***************************************************************************)
(* Control-flow helpers (utils.py:170-210)                                 *)
(***************************************************************************)
\* get_arg_val: the source of the first edge into (id, port_id), else None.
get_arg_val(id, port_id, edges) ==
    LET hits == SelectSeq(edges, LAMBDA e : e.inNodeID = id /\ e.inPortID = port_id)
    IN  IF hits = <<>> THEN "None" ELSE hits[1].outNodeID

\* A faulty variant of exec_map_get, which C20 must tell from exec_map_get:
\* the ports of the edge are not looked at.
exec_map_get_any_port(n, edges) ==
    LET hits == SelectSeq(edges, LAMBDA e : e.outNodeID = n)
    IN  IF hits = <<>> THEN "None" ELSE hits[Len(hits)].inNodeID

\* exec_map of get_execution_chain: a later THEN->EXEC edge of a node
\* overwrites an earlier one; "None" when the node has no such edge.
exec_map_get(n, edges) ==
    LET hits == SelectSeq(edges, LAMBDA e : e.outPortID = "THEN" /\ e.inPortID = "EXEC"
                                            /\ e.outNodeID = n)
    IN  IF hits = <<>> THEN "None" ELSE hits[Len(hits)].inNodeID

RECURSIVE chain_loop(_, _, _)
chain_loop(current_node, chain, edges) ==
    IF current_node = "None" \/ current_node \in Range(chain) THEN chain
    ELSE chain_loop(exec_map_get(current_node, edges), Append(chain, current_node), edges)

get_execution_chain(id, edges) == chain_loop(id, <<>>, edges)

RECURSIVE extend_chains(_, _)
extend_chains(body_edges, edges) ==
    IF body_edges = <<>> THEN <<>>
    ELSE get_execution_chain(Head(body_edges).inNodeID, edges)
         \o extend_chains(Tail(body_edges), edges)

get_substack_blocks(id, edges) ==
    extend_chains(SelectSeq(edges, LAMBDA e : e.outNodeID = id /\
                     (e.outPortID = "SUBSTACK" \/ e.outPortID = "SUBSTACK_IF")), edges)

get_substackelse_blocks(id, edges) ==
    extend_chains(SelectSeq(edges, LAMBDA e : e.outNodeID = id /\
                     e.outPortID = "SUBSTACK_ELSE"), edges)

(***************************************************************************)
(* pipeline (main.py:20-125): the emitted program, one record per line     *)
(***************************************************************************)
RECURSIVE Flatten(_)
Flatten(ss) == IF ss = <<>> THEN <<>> ELSE Head(ss) \o Flatten(Tail(ss))

Stmt(op, id, name, value, params, arg) ==
    [op |-> op, id |-> id, name |-> name, value |-> value, params |-> params, arg |-> arg]

NodeOf(g, id) == g.nodes[CHOOSE k \in DOMAIN g.nodes : g.nodes[k].id = id]

\* lines 63-72: one keyword argument per declared input and field but EXEC.
block_params(g, id, name) ==
    LET ports == SelectSeq(REF[name].inPorts \o REF[name].fields, LAMBDA p : p # "EXEC")
    IN  [k \in DOMAIN ports |-> <<lower(ports[k]), get_arg_val(id, ports[k], g.edges)>>]

\* lines 53-82: the line that defines node id.
create_block(g, id) ==
    LET n == NodeOf(g, id)
    IN  IF n.name = "Constant"
        THEN Stmt("const", id, "Constant", n.value, <<>>, "")
        ELSE Stmt("block", id, n.name, NoneV, block_params(g, id, n.name), "")

\* lines 74-80: has_substack / has_substack_else, one entry per body port.
body_entries(g, ids, body_ports) ==
    Flatten([k \in DOMAIN ids |->
        IF NodeOf(g, ids[k]).name = "Constant" THEN <<>>
        ELSE LET outs == SelectSeq(REF[NodeOf(g, ids[k]).name].outPorts,
                                   LAMBDA p : p \in body_ports)
             IN  [j \in DOMAIN outs |-> ids[k]]])

\* lines 87-88 and 92-93: one line per block of the body of id.
body_lines(op, id, blocks) ==
    [j \in DOMAIN blocks |-> Stmt(op, id, "", NoneV, <<>>, blocks[j])]

\* lines 85-88
substack_lines(owners, edges) ==
    Flatten([k \in DOMAIN owners |->
        body_lines("add_to_substack", owners[k], get_substack_blocks(owners[k], edges))])

\* lines 90-93
substackelse_lines(owners, edges) ==
    Flatten([k \in DOMAIN owners |->
        body_lines("add_to_else_substack", owners[k], get_substackelse_blocks(owners[k], edges))])

\* lines 96-98
connect_lines(g) ==
    LET es == SelectSeq(g.edges, LAMBDA e : e.outPortID = "THEN" /\ e.inPortID = "EXEC")
    IN  [k \in DOMAIN es |-> Stmt("connect_next", es[k].outNodeID, "", NoneV, <<>>,
                                  es[k].inNodeID)]

IsTrigger(name) == name = "WhenFlagClicked" \/ name = "WhenKeyPressed"

\* lines 101-105: add_script for the first trigger of ordered_ids, then break.
script_lines(g, ids) ==
    LET trig == SelectSeq(ids, LAMBDA id : IsTrigger(NodeOf(g, id).name))
    IN  IF trig = <<>> THEN <<>>
        ELSE <<Stmt("add_script", trig[1], "", NoneV, <<>>, "")>>

\* lines 119-125: the except branch writes an empty file.
EmptyFile(error) == [empty |-> TRUE, error |-> error, program |-> <<>>]

\* lines 33-117
emit(g, ids) ==
    [empty |-> FALSE, error |-> "none", program |->
        [k \in DOMAIN ids |-> create_block(g, ids[k])]
        \o substack_lines(body_entries(g, ids, {"SUBSTACK", "SUBSTACK_IF"}), g.edges)
        \o substackelse_lines(body_entries(g, ids, {"SUBSTACK_ELSE"}), g.edges)
        \o connect_lines(g)
        \o script_lines(g, ids)
        \o <<Stmt("execute", "", "", NoneV, <<>>, "")>>]

pipeline(g) ==
    LET ord == topological_sort(g)
    IN  IF ord.err # "none" THEN EmptyFile(ord.err)
        ELSE IF \E k \in DOMAIN ord.ids : ord.ids[k] \notin NodeIDsOf(g)
        THEN EmptyFile("KeyError: node")
        ELSE IF \E k \in DOMAIN g.nodes :
                    g.nodes[k].name # "Constant" /\ g.nodes[k].name \notin DOMAIN REF
        THEN EmptyFile("KeyError: REF")
        ELSE emit(g, ord.ids)

(***************************************************************************)
(* Python conversions used by the blocks (scratch.py)                      *)
(***************************************************************************)
Ok(n)      == [err |-> "none", n |-> n]
Raise(exc) == [err |-> exc, n |-> 0]

IsNumeric(s) == \E k \in (0 - MaxParsed)..MaxParsed : ToString(k) = s
ParseNum(s)  == CHOOSE k \in (0 - MaxParsed)..MaxParsed : ToString(k) = s

\* int(v) and float(v): a string is parsed, None and objects are TypeErrors.
\* Floats of the model are integer-valued, so both return the integer n.
to_number(v) ==
    CASE v.t \in {"int", "float", "bool"} -> Ok(v.n)
      [] v.t = "str" -> IF IsNumeric(v.s) THEN Ok(ParseNum(v.s)) ELSE Raise("ValueError")
      [] OTHER -> Raise("TypeError")

\* str(v), as an f-string formats it.
to_str(v) ==
    CASE v.t = "int"   -> ToString(v.n)
      [] v.t = "float" -> IF v.s = "" THEN ToString(v.n) \o ".0" ELSE v.s
      [] v.t = "str"   -> v.s
      [] v.t = "bool"  -> IF v.n = 1 THEN "True" ELSE "False"
      [] v.t = "None"  -> "None"
      [] OTHER         -> "<" \o v.s \o " object>"

\* repr(v): a string is quoted, with double quotes when it holds single ones
\* (escaping inside a string that holds both kinds is not modelled).
to_repr(v) ==
    IF v.t # "str" THEN StrV(to_str(v))
    ELSE IF v.q = 1 THEN PyV("str", 0, "\"" \o v.s \o "\"", 2)
    ELSE PyV("str", 0, "'" \o v.s \o "'", IF v.q = 0 THEN 1 ELSE 2)

Max(a, b) == IF a >= b THEN a ELSE b

\* a + b on strings
Cat(a, b) == PyV("str", 0, a.s \o b.s, Max(a.q, b.q))

Fmt(v) == PyV("str", 0, to_str(v), IF v.t = "str" THEN v.q ELSE 0)

RECURSIVE join_reprs(_)
join_reprs(vals) ==
    IF vals = <<>> THEN StrV("")
    ELSE IF Len(vals) = 1 THEN to_repr(vals[1])
    ELSE Cat(Cat(to_repr(vals[1]), StrV(", ")), join_reprs(Tail(vals)))

\* f"{results}" of a list
list_str(vals) == Cat(Cat(StrV("["), join_reprs(vals)), StrV("]"))

truthy(v) ==
    CASE v.t \in {"int", "float", "bool"} -> v.n # 0
      [] v.t = "str"  -> v.s # ""
      [] v.t = "None" -> FALSE
      [] OTHER        -> TRUE

\* op1 == op2
py_eq(a, b) ==
    CASE a.t \in {"int", "float", "bool"} /\ b.t \in {"int", "float", "bool"} -> a.n = b.n
      [] a.t = "str" /\ b.t = "str"     -> a.s = b.s
      [] a.t = "None" /\ b.t = "None"   -> TRUE
      [] a.t = "block" /\ b.t = "block" -> a.s = b.s
      [] OTHER -> FALSE

\* context.get(key, default) and context[key] = v
ctx_get(ctx, key, default) == IF key \in DOMAIN ctx THEN ctx[key] ELSE default
ctx_set(ctx, key, v) == [k \in DOMAIN ctx \cup {key} |-> IF k = key THEN v ELSE ctx[k]]

(***************************************************************************)
(* Runtime blocks (scratch.py:20-933) and their execute methods            *)
(***************************************************************************)
\* ScratchBlock.__init__ followed by the add_input / add_field calls of the
\* subclass constructor.
NewBlock(name, inputs, fields) ==
    [name |-> name, inputs |-> inputs, fields |-> fields, next_block |-> NoneV,
     parent |-> NoneV, children |-> <<>>, substack |-> <<>>, substack2 |-> <<>>]

Res(ctx, val, err, log) == [ctx |-> ctx, val |-> val, err |-> err, log |-> log]

\* MoveStepsBlock.execute lines 98-103, after STEPS has been evaluated.
move_steps(ctx, steps) ==
    LET n == to_number(steps)
    IN  IF n.err # "none" THEN Res(ctx, NoneV, n.err, <<>>)
        ELSE IF ctx_get(ctx, "direction", IntV(0)).n = 0
        THEN Res(ctx_set(ctx_set(ctx, "x", FloatV(ctx_get(ctx, "x", IntV(0)).n + n.n)),
                         "y", FloatV(ctx_get(ctx, "y", IntV(0)).n)),
                 Cat(Cat(StrV("Moved "), Fmt(steps)), StrV(" steps")), "none", <<>>)
        ELSE Res(ctx_set(ctx_set(ctx, "x", PyV("float", 0, "inexact", 0)),
                         "y", PyV("float", 0, "inexact", 0)),
                 Cat(Cat(StrV("Moved "), Fmt(steps)), StrV(" steps")), "none", <<>>)

var_key(var_name) == "var_" \o to_str(var_name)

\* SetVariableBlock.execute lines 900-901
set_variable(ctx, var_name, value) ==
    Res(ctx_set(ctx, var_key(var_name), value),
        Cat(Cat(Cat(StrV("Set "), Fmt(var_name)), StrV(" to ")), Fmt(value)), "none", <<>>)

\* A faulty variant of changed_value, which C8 must tell from changed_value:
\* the operands are added as they are, without the float() conversions.
changed_value_unconverted(current_value, value) ==
    IF current_value.t = "int" /\ value.t = "int"
    THEN [err |-> "none", n |-> IntV(current_value.n + value.n)]
    ELSE [err |-> "none", n |-> Cat(Fmt(current_value), Fmt(value))]

\* ChangeVariableByBlock.execute lines 916-923: float addition, string
\* concatenation when float() raises ValueError.
changed_value(current_value, value) ==
    LET a == to_number(current_value)
        b == to_number(value)
    IN  IF a.err = "TypeError" THEN Raise("TypeError")
        ELSE IF a.err = "ValueError" THEN [err |-> "none", n |-> Cat(Fmt(current_value), Fmt(value))]
        ELSE IF b.err = "TypeError" THEN Raise("TypeError")
        ELSE IF b.err = "ValueError" THEN [err |-> "none", n |-> Cat(Fmt(current_value), Fmt(value))]
        ELSE [err |-> "none", n |-> FloatV(a.n + b.n)]

change_variable(ctx, var_name, value) ==
    LET new_value == changed_value(ctx_get(ctx, var_key(var_name), IntV(0)), value)
    IN  IF new_value.err # "none" THEN Res(ctx, NoneV, new_value.err, <<>>)
        ELSE Res(ctx_set(ctx, var_key(var_name), new_value.n),
                 Cat(Cat(Cat(StrV("Changed "), Fmt(var_name)), StrV(" by ")), Fmt(value)),
                 "none", <<>>)

\* IfBlock.execute lines 445-451, given the condition and the body's outcome.
if_result(condition, body) ==
    IF truthy(condition)
    THEN Res(body.ctx, Cat(StrV("If condition met: "), list_str(body.val)), "none", <<>>)
    ELSE Res(body.ctx, NoneV, "UnboundLocalError", <<>>)

\* a // b and a % b on Python ints: the quotient is rounded towards minus
\* infinity, so the remainder has the sign of the divisor.
floor_div(a, b) == IF b > 0 THEN a \div b ELSE (0 - a) \div (0 - b)
py_mod(a, b) == a - b * floor_div(a, b)

\* A faulty variant of heading, which C14 must tell from heading: the sum
\* is stored without the reduction modulo 360.
heading_unwrapped(dir, n) == PyV(IF dir.t = "float" THEN "float" ELSE "int", n, "", 0)

\* The sum of the heading and an int keeps the heading's type.
heading(dir, n) == PyV(IF dir.t = "float" THEN "float" ELSE "int", py_mod(n, 360), "", 0)

\* TurnRightBlock.execute lines 116-117, after DEGREES has been evaluated.
turn_right(ctx, degrees) ==
    LET n == to_number(degrees)
    IN  IF n.err # "none" THEN Res(ctx, NoneV, n.err, <<>>)
        ELSE IF ctx_get(ctx, "direction", IntV(0)).t \notin {"int", "float", "bool"}
        THEN Res(ctx, NoneV, "TypeError", <<>>)
        ELSE Res(ctx_set(ctx, "direction",
                         heading(ctx_get(ctx, "direction", IntV(0)),
                                 ctx_get(ctx, "direction", IntV(0)).n + n.n)),
                 Cat(Cat(StrV("Turned right "), Fmt(degrees)), StrV(" degrees")), "none", <<>>)

\* TurnLeftBlock.execute lines 129-130
turn_left(ctx, degrees) ==
    LET n == to_number(degrees)
    IN  IF n.err # "none" THEN Res(ctx, NoneV, n.err, <<>>)
        ELSE IF ctx_get(ctx, "direction", IntV(0)).t \notin {"int", "float", "bool"}
        THEN Res(ctx, NoneV, "TypeError", <<>>)
        ELSE Res(ctx_set(ctx, "direction",
                         heading(ctx_get(ctx, "direction", IntV(0)),
                                 ctx_get(ctx, "direction", IntV(0)).n - n.n)),
                 Cat(Cat(StrV("Turned left "), Fmt(degrees)), StrV(" degrees")), "none", <<>>)

\* PointInDirectionBlock.execute lines 218-219
point_in_direction(ctx, direction) ==
    LET n == to_number(direction)
    IN  IF n.err # "none" THEN Res(ctx, NoneV, n.err, <<>>)
        ELSE Res(ctx_set(ctx, "direction", IntV(py_mod(n.n, 360))),
                 Cat(StrV("Pointed in direction "), Fmt(direction)), "none", <<>>)

RECURSIVE gcd(_, _)
gcd(a, b) == IF b = 0 THEN a ELSE gcd(b, a % b)

\* float(a) / float(b) for b # 0, kept exactly: a whole quotient is the float
\* n, any other is the reduced fraction n / q (its str() is not modelled).
\* A zero quotient takes the sign of the divisor.
quotient(a, b) ==
    LET g   == gcd(IF a < 0 THEN 0 - a ELSE a, IF b < 0 THEN 0 - b ELSE b)
        num == (IF b < 0 THEN 0 - a ELSE a) \div g
        den == (IF b < 0 THEN 0 - b ELSE b) \div g
    IN  IF den # 1 THEN PyV("float", num, "ratio", den)
        ELSE IF num = 0 /\ b < 0 THEN PyV("float", 0, "-0.0", 0)
        ELSE FloatV(num)

\* float(a) % float(b) for b # 0 on whole numbers; a zero remainder takes the
\* sign of the divisor.
remainder(a, b) ==
    IF py_mod(a, b) = 0 /\ b < 0 THEN PyV("float", 0, "-0.0", 0) ELSE FloatV(py_mod(a, b))

\* A faulty variant of divide, which C15 must tell from divide: the zero
\* divisor is not intercepted and the division raises.
divide_unguarded(ctx, num1, num2) ==
    LET a == to_number(num1)
        b == to_number(num2)
    IN  IF b.err # "none" THEN Res(ctx, NoneV, b.err, <<>>)
        ELSE IF a.err # "none" THEN Res(ctx, NoneV, a.err, <<>>)
        ELSE IF b.n = 0 THEN Res(ctx, NoneV, "ZeroDivisionError", <<>>)
        ELSE Res(ctx, quotient(a.n, b.n), "none", <<>>)

\* DivideBlock.execute lines 619-621, after NUM1 and NUM2 have been
\* evaluated: float(num2) is converted first, num1 only for a non-zero divisor.
divide(ctx, num1, num2) ==
    LET a == to_number(num1)
        b == to_number(num2)
    IN  IF b.err # "none" THEN Res(ctx, NoneV, b.err, <<>>)
        ELSE IF b.n = 0 THEN Res(ctx, PyV("float", 0, "inf", 0), "none", <<>>)
        ELSE IF a.err # "none" THEN Res(ctx, NoneV, a.err, <<>>)
        ELSE Res(ctx, quotient(a.n, b.n), "none", <<>>)

\* ModBlock.execute lines 823-825
mod(ctx, num1, num2) ==
    LET a == to_number(num1)
        b == to_number(num2)
    IN  IF b.err # "none" THEN Res(ctx, NoneV, b.err, <<>>)
        ELSE IF b.n = 0 THEN Res(ctx, PyV("float", 0, "nan", 0), "none", <<>>)
        ELSE IF a.err # "none" THEN Res(ctx, NoneV, a.err, <<>>)
        ELSE Res(ctx, remainder(a.n, b.n), "none", <<>>)

\* The code points of the strings that the comparisons of this model meet.
code_points(s) ==
    CASE s = ""     -> <<>>
      [] s = "0"    -> <<48>>
      [] s = "0.0"  -> <<48, 46, 48>>
      [] s = "2"    -> <<50>>
      [] s = "9"    -> <<57>>
      [] s = "10"   -> <<49, 48>>
      [] s = "-4"   -> <<45, 52>>
      [] s = "a"    -> <<97>>
      [] s = "b"    -> <<98>>
      [] s = "None" -> <<78, 111, 110, 101>>

\* x > y on strings: the first differing code point decides, a proper prefix
\* is the smaller.
RECURSIVE str_gt(_, _)
str_gt(x, y) ==
    IF x = <<>> THEN FALSE
    ELSE IF y = <<>> THEN TRUE
    ELSE IF Head(x) # Head(y) THEN Head(x) > Head(y)
    ELSE str_gt(Tail(x), Tail(y))

\* try: float(op1) ? float(op2)  except ValueError: str(op1) ? str(op2).
\* float(op1) is converted first; a TypeError is not caught.
coerced(op1, op2) ==
    LET a == to_number(op1)
        b == to_number(op2)
    IN  IF a.err = "TypeError" THEN "TypeError"
        ELSE IF a.err = "ValueError" THEN "strings"
        ELSE IF b.err = "TypeError" THEN "TypeError"
        ELSE IF b.err = "ValueError" THEN "strings"
        ELSE "numbers"

\* GreaterThanBlock.execute lines 657-660
greater_than(ctx, op1, op2) ==
    CASE coerced(op1, op2) = "TypeError" -> Res(ctx, NoneV, "TypeError", <<>>)
      [] coerced(op1, op2) = "numbers" ->
           Res(ctx, BoolV(to_number(op1).n > to_number(op2).n), "none", <<>>)
      [] coerced(op1, op2) = "strings" ->
           Res(ctx, BoolV(str_gt(code_points(to_str(op1)), code_points(to_str(op2)))),
               "none", <<>>)

\* LessThanBlock.execute lines 678-681
less_than(ctx, op1, op2) ==
    CASE coerced(op1, op2) = "TypeError" -> Res(ctx, NoneV, "TypeError", <<>>)
      [] coerced(op1, op2) = "numbers" ->
           Res(ctx, BoolV(to_number(op1).n < to_number(op2).n), "none", <<>>)
      [] coerced(op1, op2) = "strings" ->
           Res(ctx, BoolV(str_gt(code_points(to_str(op2)), code_points(to_str(op1)))),
               "none", <<>>)

\* IfElseBlock.execute lines 485-488: body holds the outcomes of the if-part
\* followed by those of the else-part, both of which lines 477-483 iterate.
if_else_result(b, condition, body) ==
    IF truthy(condition)
    THEN Res(body.ctx,
             Cat(Cat(Cat(Cat(StrV("If condition met: "),
                             list_str(SubSeq(body.val, 1, Len(b.substack)))),
                         StrV(" (else: ")),
                     list_str(SubSeq(body.val, Len(b.substack) + 1, Len(body.val)))),
                 StrV(")")), "none", <<>>)
    ELSE Res(body.ctx,
             Cat(Cat(Cat(Cat(StrV("Else condition met: "),
                             list_str(SubSeq(body.val, Len(b.substack) + 1, Len(body.val)))),
                         StrV(" (if: ")),
                     list_str(SubSeq(body.val, 1, Len(b.substack)))),
                 StrV(")")), "none", <<>>)

\* A faulty variant of wait, which C24 must tell from wait: the block keeps
\* the time it has waited in the context.
wait_timed(ctx, secs) ==
    Res(ctx_set(ctx, "timer", secs), Cat(Cat(StrV("Waited "), Fmt(secs)), StrV(" seconds")),
        "none", <<>>)

\* WaitBlock.execute line 385, after SECS has been evaluated.
wait(ctx, secs) ==
    Res(ctx, Cat(Cat(StrV("Waited "), Fmt(secs)), StrV(" seconds")), "none", <<>>)

\* WaitUntilBlock.execute line 499, after CONDITION has been evaluated.
wait_until(ctx, condition) ==
    Res(ctx, Cat(StrV("Waited until condition: "), Fmt(condition)), "none", <<>>)

\* The inputs a block's execute evaluates before anything else, in order;
\* strict ones are called as self.inputs[...].execute(context) with no
\* isinstance test.
InputsToEval(b) ==
    CASE b.name = "MoveSteps" -> <<[v |-> b.inputs["STEPS"], strict |-> FALSE]>>
      [] b.name \in {"SetVariable", "ChangeVariableBy"} ->
           <<[v |-> b.inputs["VALUE"], strict |-> FALSE]>>
      [] b.name \in {"If", "IfElse", "WaitUntil"} ->
           <<[v |-> b.inputs["CONDITION"], strict |-> TRUE]>>
      [] b.name = "Wait" -> <<[v |-> b.inputs["SECS"], strict |-> FALSE]>>
      [] b.name \in {"Equals", "GreaterThan", "LessThan"} ->
           <<[v |-> b.inputs["OPERAND1"], strict |-> FALSE],
             [v |-> b.inputs["OPERAND2"], strict |-> FALSE]>>
      [] b.name \in {"TurnRight", "TurnLeft"} -> <<[v |-> b.inputs["DEGREES"], strict |-> FALSE]>>
      [] b.name = "PointInDirection" -> <<[v |-> b.inputs["DIRECTION"], strict |-> FALSE]>>
      [] b.name \in {"Divide", "Mod"} -> <<[v |-> b.inputs["NUM1"], strict |-> FALSE],
                                           [v |-> b.inputs["NUM2"], strict |-> FALSE]>>
      [] b.name = "Repeat" -> <<[v |-> b.inputs["TIMES"], strict |-> FALSE]>>
      [] OTHER -> <<>>

\* A faulty variant of RunsSubstack, which C18 must tell from RunsSubstack: a
\* Repeat whose TIMES is not positive skips its body.
RunsSubstack_counted(b, args) ==
    \/ b.name = "If" /\ truthy(args[1])
    \/ b.name = "Repeat" /\ to_number(args[1]).n > 0
    \/ b.name = "Forever"

\* Whether execute iterates self.substack, given the evaluated inputs.
RunsSubstack(b, args) ==
    \/ b.name = "If" /\ truthy(args[1])
    \/ b.name \in {"Repeat", "Forever", "IfElse", "RepeatUntil"}

\* The rest of execute: args are the evaluated inputs, body the outcome of
\* the substack loop (ctx is the context after it).
Apply(b, args, body) ==
    CASE b.name = "WhenFlagClicked" -> Res(body.ctx, StrV("Program started"), "none", <<>>)
      [] b.name = "WhenKeyPressed" ->
           Res(body.ctx, Cat(Cat(StrV("Key "), Fmt(b.fields["KEY_OPTION"])), StrV(" pressed")),
               "none", <<>>)
      [] b.name = "MoveSteps" -> move_steps(body.ctx, args[1])
      [] b.name = "SetVariable" -> set_variable(body.ctx, b.fields["VARIABLE"], args[1])
      [] b.name = "ChangeVariableBy" ->
           change_variable(body.ctx, b.fields["VARIABLE"], args[1])
      [] b.name = "If" -> if_result(args[1], body)
      [] b.name = "MouseDown" ->
           Res(body.ctx, ctx_get(body.ctx, "mouse_down", BoolV(FALSE)), "none", <<>>)
      [] b.name = "Equals" -> Res(body.ctx, BoolV(py_eq(args[1], args[2])), "none", <<>>)
      [] b.name = "TurnRight" -> turn_right(body.ctx, args[1])
      [] b.name = "TurnLeft" -> turn_left(body.ctx, args[1])
      [] b.name = "PointInDirection" -> point_in_direction(body.ctx, args[1])
      [] b.name = "Divide" -> divide(body.ctx, args[1], args[2])
      [] b.name = "Mod" -> mod(body.ctx, args[1], args[2])
      [] b.name = "GreaterThan" -> greater_than(body.ctx, args[1], args[2])
      [] b.name = "LessThan" -> less_than(body.ctx, args[1], args[2])
      [] b.name = "Repeat" ->
           Res(body.ctx, Cat(Cat(Cat(StrV("Repeated "), Fmt(args[1])), StrV(" times: ")),
                             list_str(body.val)), "none", <<>>)
      [] b.name = "Forever" ->
           Res(body.ctx, Cat(StrV("Forever loop: "), list_str(body.val)), "none", <<>>)
      [] b.name = "IfElse" -> if_else_result(b, args[1], body)
      [] b.name = "RepeatUntil" ->
           Res(body.ctx, Cat(Cat(Cat(StrV("Repeat until "), Fmt(b.inputs["CONDITION"])),
                                 StrV(": ")), list_str(body.val)), "none", <<>>)
      [] b.name = "Wait" -> wait(body.ctx, args[1])
      [] b.name = "WaitUntil" -> wait_until(body.ctx, args[1])
      [] OTHER -> Res(body.ctx, NoneV, "NotImplemented", <<>>)

\* results.append(result): the outcome r of one evaluation followed by the
\* outcome of the evaluations after it.
Then(r, rest) == Res(rest.ctx, <<r.val>> \o rest.val, rest.err, r.log \o rest.log)

\* An exception leaves the loop: no list of results.
Abort(r) == Res(r.ctx, <<>>, r.err, r.log)

RECURSIVE Exec(_, _, _)
RECURSIVE ExecList(_, _, _)
RECURSIVE EvalInputs(_, _, _)

EvalInput(heap, i, ctx) ==
    IF i.v.t = "block" THEN Exec(heap, i.v.s, ctx)
    ELSE IF i.strict THEN Res(ctx, NoneV, "AttributeError", <<>>)
    ELSE Res(ctx, i.v, "none", <<>>)

EvalRest(heap, ins, r) ==
    IF r.err # "none" THEN Abort(r) ELSE Then(r, EvalInputs(heap, Tail(ins), r.ctx))

\* Evaluate the inputs left to right: a block is executed, a literal is
\* taken as it is, and a strict input that is no block is an AttributeError.
EvalInputs(heap, ins, ctx) ==
    IF ins = <<>> THEN Res(ctx, <<>>, "none", <<>>)
    ELSE EvalRest(heap, ins, EvalInput(heap, Head(ins), ctx))

ExecFinish(id, a, body, r) ==
    IF body.err # "none" THEN Res(body.ctx, NoneV, body.err, <<id>> \o a.log \o body.log)
    ELSE Res(r.ctx, r.val, r.err, <<id>> \o a.log \o body.log)

ExecBody(b, id, a, body) == ExecFinish(id, a, body, Apply(b, a.val, body))

ExecArgs(heap, id, a) ==
    IF a.err # "none" THEN Res(a.ctx, NoneV, a.err, <<id>> \o a.log)
    ELSE ExecBody(heap[id], id, a,
                  IF RunsSubstack(heap[id], a.val)
                  THEN ExecList(heap, heap[id].substack
                                      \o (IF heap[id].name = "IfElse" THEN heap[id].substack2
                                          ELSE <<>>), a.ctx)
                  ELSE Res(a.ctx, <<>>, "none", <<>>))

\* block.execute(context) of the block with identity id: the inputs, then
\* the body list when the block iterates it, then the block's own effect.
\* log is the order in which execute methods were entered.
Exec(heap, id, ctx) == ExecArgs(heap, id, EvalInputs(heap, InputsToEval(heap[id]), ctx))

ExecListRest(heap, blocks, r) ==
    IF r.err # "none" THEN Abort(r) ELSE Then(r, ExecList(heap, Tail(blocks), r.ctx))

\* for block in blocks: results.append(block.execute(context))
ExecList(heap, blocks, ctx) ==
    IF blocks = <<>> THEN Res(ctx, <<>>, "none", <<>>)
    ELSE ExecListRest(heap, blocks, Exec(heap, Head(blocks).s, ctx))

(***************************************************************************)
(* ScratchProgram (scratch.py:936-1013)                                    *)
(***************************************************************************)
RECURSIVE execute_script(_, _, _)

script_rest(heap, current_block, r) ==
    IF r.err # "none" THEN Abort(r)
    ELSE Then(r, execute_script(heap, heap[current_block.s].next_block, r.ctx))

\* _execute_script: walk next_block until it is falsy.
execute_script(heap, current_block, ctx) ==
    IF ~truthy(current_block) THEN Res(ctx, <<>>, "none", <<>>)
    ELSE IF current_block.t # "block" THEN Res(ctx, <<>>, "AttributeError", <<>>)
    ELSE script_rest(heap, current_block, Exec(heap, current_block.s, ctx))

\* execute line 994
DefaultContext ==
    [k \in {"x", "y", "direction", "size"} |-> IF k = "size" THEN IntV(100) ELSE IntV(0)]

RECURSIVE execute_scripts(_, _, _)

\* A faulty variant of scripts_rest, which C17 must tell from scripts_rest:
\* every script starts on a fresh default context.
scripts_rest_fresh(heap, scripts, r) ==
    IF r.err # "none" THEN Abort(r)
    ELSE Then(r, execute_scripts(heap, Tail(scripts), DefaultContext))

scripts_rest(heap, scripts, r) ==
    IF r.err # "none" THEN Abort(r)
    ELSE Then(r, execute_scripts(heap, Tail(scripts), r.ctx))

\* execute lines 996-1001: the scripts one after another on one context.
execute_scripts(heap, scripts, ctx) ==
    IF scripts = <<>> THEN Res(ctx, <<>>, "none", <<>>)
    ELSE scripts_rest(heap, scripts, execute_script(heap, Head(scripts), ctx))

execute(heap, scripts) == execute_scripts(heap, scripts, DefaultContext)

(***************************************************************************)
(* The run of the emitted program (main.py:176-178 runs out.py, whose      *)
(* lines are those of main.py:42-113)                                      *)
(***************************************************************************)
fn_set(f, key, v) == [k \in DOMAIN f \cup {key} |-> IF k = key THEN v ELSE f[k]]

EmptyFn == [k \in {} |-> NoneV]

\* The value an emitted argument denotes: None, or the variable of that name.
ArgDefined(env, arg) == arg = "None" \/ arg \in DOMAIN env
ArgValue(env, arg) == IF arg = "None" THEN NoneV ELSE env[arg]

\* ScratchBlock.add_input lines 47-49 on the heap: a block given as an input
\* gets self as parent and joins self.children.
adopt(heap, id, child) ==
    [heap EXCEPT ![child].parent = BlockV(id), ![id].children = Append(@, child)]

RECURSIVE adopt_all(_, _, _)
adopt_all(heap, id, vals) ==
    IF vals = <<>> THEN heap
    ELSE adopt_all(IF Head(vals).t = "block" THEN adopt(heap, id, Head(vals).s) ELSE heap,
                   id, Tail(vals))

\* "<id> = <name>Block(<params>)": the constructor call of one emitted line.
construct(st, line) ==
    LET sch   == REF[line.name]
        ins   == SelectSeq(sch.inPorts, LAMBDA p : p # "EXEC")
        arg_of(port) ==
            LET k == CHOOSE k \in DOMAIN line.params : line.params[k][1] = lower(port)
            IN  ArgValue(st.env, line.params[k][2])
        inputs == [p \in Range(ins) |-> arg_of(p)]
        fields == [p \in Range(sch.fields) |-> arg_of(p)]
        heap1  == fn_set(st.heap, line.id, NewBlock(line.name, inputs, fields))
    IN  IF \E k \in DOMAIN line.params : ~ArgDefined(st.env, line.params[k][2])
        THEN [st EXCEPT !.err = "NameError"]
        ELSE [st EXCEPT !.env = fn_set(@, line.id, BlockV(line.id)),
                        !.heap = adopt_all(heap1, line.id, [k \in DOMAIN ins |-> inputs[ins[k]]])]

\* "<id> = <name>Block(<arguments>)": a constructor call whose arguments are
\* literals or blocks made on earlier lines, line.value holding the inputs
\* and fields it stores and line.params the input ports that hold a block,
\* in the order of the add_input calls.
make(st, line) ==
    [st EXCEPT !.env = fn_set(@, line.id, BlockV(line.id)),
               !.heap = adopt_all(fn_set(@, line.id,
                                         NewBlock(line.name, line.value.inputs,
                                                  line.value.fields)),
                                  line.id,
                                  [k \in DOMAIN line.params |->
                                      line.value.inputs[line.params[k]]])]

\* add_to_substack / add_to_else_substack (scratch.py:394-398, 461-471)
add_to_body(st, line, field) ==
    IF line.id \notin DOMAIN st.env \/ line.arg \notin DOMAIN st.env
    THEN [st EXCEPT !.err = "NameError"]
    ELSE IF st.env[line.id].t # "block" \/ st.env[line.arg].t # "block"
    THEN [st EXCEPT !.err = "AttributeError"]
    ELSE LET h1 == IF field = "substack"
                   THEN [st.heap EXCEPT ![line.id].substack = Append(@, st.env[line.arg])]
                   ELSE [st.heap EXCEPT ![line.id].substack2 = Append(@, st.env[line.arg])]
         IN  [st EXCEPT !.heap = adopt(h1, line.id, line.arg)]

\* A faulty variant of connect_next, which C26 must tell from connect_next: a
\* block that has a next block keeps it.
connect_next_once(st, line) ==
    IF line.id \notin DOMAIN st.env \/ line.arg \notin DOMAIN st.env
    THEN [st EXCEPT !.err = "NameError"]
    ELSE IF st.env[line.id].t # "block" THEN [st EXCEPT !.err = "AttributeError"]
    ELSE IF st.heap[line.id].next_block.t = "block" THEN st
    ELSE IF st.env[line.arg].t # "block" THEN [st EXCEPT !.err = "AttributeError"]
    ELSE [st EXCEPT !.heap[line.id].next_block = st.env[line.arg],
                    !.heap[line.arg].parent = BlockV(line.id)]

\* ScratchBlock.connect_next (scratch.py:38-42)
connect_next(st, line) ==
    IF line.id \notin DOMAIN st.env \/ line.arg \notin DOMAIN st.env
    THEN [st EXCEPT !.err = "NameError"]
    ELSE IF st.env[line.id].t # "block" THEN [st EXCEPT !.err = "AttributeError"]
    ELSE LET nb == st.env[line.arg]
         IN  IF ~truthy(nb) THEN [st EXCEPT !.heap[line.id].next_block = nb]
             ELSE IF nb.t # "block" THEN [st EXCEPT !.err = "AttributeError"]
             ELSE [st EXCEPT !.heap[line.id].next_block = nb,
                             !.heap[line.arg].parent = BlockV(line.id)]

\* _add_connected_blocks (scratch.py:952-968): everything reachable through
\* next_block, children, substack and substack2.
Linked(heap, id) ==
    (IF heap[id].next_block.t = "block" THEN {heap[id].next_block.s} ELSE {})
    \cup Range(heap[id].children)
    \cup {v.s : v \in Range(heap[id].substack)}
    \cup {v.s : v \in Range(heap[id].substack2)}

RECURSIVE connected_blocks(_, _)
connected_blocks(heap, S) ==
    LET T == S \cup UNION {Linked(heap, id) : id \in S}
    IN  IF T = S THEN S ELSE connected_blocks(heap, T)

\* ScratchProgram.add_script (scratch.py:947-950)
add_script(st, line) ==
    IF line.id \notin DOMAIN st.env THEN [st EXCEPT !.err = "NameError"]
    ELSE IF st.env[line.id].t # "block" THEN [st EXCEPT !.err = "AttributeError"]
    ELSE [st EXCEPT !.scripts = Append(@, st.env[line.id]),
                    !.blocks = @ \cup connected_blocks(st.heap, {line.id})]

\* "results, final_context = program.execute()": an exception ends the run
\* with nothing returned.
record_run(st, r) ==
    [st EXCEPT !.err = r.err, !.executed = TRUE, !.log = r.log,
               !.results = IF r.err = "none" THEN r.val ELSE <<>>,
               !.final_context = IF r.err = "none" THEN r.ctx ELSE EmptyFn]

run_line(st, line) ==
    CASE line.op = "const" -> [st EXCEPT !.env = fn_set(@, line.id, line.value)]
      [] line.op = "block" -> construct(st, line)
      [] line.op = "make" -> make(st, line)
      [] line.op = "add_to_substack" -> add_to_body(st, line, "substack")
      [] line.op = "add_to_else_substack" -> add_to_body(st, line, "substack2")
      [] line.op = "connect_next" -> connect_next(st, line)
      [] line.op = "add_script" -> add_script(st, line)
      [] line.op = "execute" -> record_run(st, execute(st.heap, st.scripts))

RECURSIVE run_lines(_, _)
run_lines(st, lines) ==
    IF lines = <<>> \/ st.err # "none" THEN st
    ELSE run_lines(run_line(st, Head(lines)), Tail(lines))

\* python out.py: program = ScratchProgram(), then the emitted lines in order.
run_program(file) ==
    run_lines([env |-> EmptyFn, heap |-> [k \in {} |-> NewBlock("", EmptyFn, EmptyFn)],
               scripts |-> <<>>, blocks |-> {}, err |-> "none", executed |-> FALSE,
               results |-> <<>>, final_context |-> EmptyFn, log |-> <<>>],
              file.program)

(***************************************************************************)
(* SpecTopo: topological_sort on every graph over three node ids with at   *)
(* most MaxEdges edges; the first k ids are declared, the others are not.  *)
(***************************************************************************)
TopoIDs == <<"a", "b", "c">>

TopoNodeTables ==
    {[k \in 1..n |-> Node(TopoIDs[k], "MoveSteps", NoneV)] : n \in 1..Len(TopoIDs)}

TopoEdgeUniverse ==
    {Edge(o, "THEN", i, "EXEC") : o \in Range(TopoIDs), i \in Range(TopoIDs)}

NoOutcome == [err |-> "unset", ids |-> <<>>]

InitTopo ==
    /\ pc = "start"
    /\ \E ns \in TopoNodeTables, es \in SeqsUpTo(TopoEdgeUniverse, MaxEdges) :
          graph = [nodes |-> ns, edges |-> es]
    /\ ordered_ids = NoOutcome
    /\ agent_b_graph = "unused"
    /\ node_reference = "unused"
    /\ wiring = "unused"
    /\ agent_a_graph = "unused"
    /\ out_file = "unused"
    /\ run = "unused"

TopologicalSort ==
    /\ pc = "start"
    /\ ordered_ids' = topological_sort(graph)
    /\ pc' = "sorted"
    /\ UNCHANGED <<graph, agent_b_graph, node_reference, agent_a_graph, wiring, out_file, run>>

NextTopo == TopologicalSort

SpecTopo == InitTopo /\ [][NextTopo]_vars

(***************************************************************************)
(* Spec: pipeline on a generated graph, then the run of the emitted file.  *)
(* The graphs are those an external producer can return: up to MaxTriggers *)
(* trigger nodes, a chain of up to MaxStmts statements hanging off the     *)
(* first trigger, each with its Constant arguments (present, non-numeric   *)
(* or missing), optionally a back edge closing the chain into a cycle and  *)
(* an edge to an undeclared node.                                          *)
(***************************************************************************)
TriggerKinds == {"WhenFlagClicked", "WhenKeyPressed"}

StmtChoices ==
    {[name |-> "SetVariable", arg |-> "int"], [name |-> "SetVariable", arg |-> "str"],
     [name |-> "ChangeVariableBy", arg |-> "int"],
     [name |-> "MoveSteps", arg |-> "int"], [name |-> "MoveSteps", arg |-> "str"],
     [name |-> "MoveSteps", arg |-> "missing"],
     [name |-> "If", arg |-> "MouseDown"], [name |-> "If", arg |-> "Equals"]}

Extras == SUBSET {"back", "ghost"}

TrigID(j) == "t" \o ToString(j)
StmtID(i) == "s" \o ToString(i)

ArgConst(c) ==
    IF c.arg = "str" THEN StrV("abc")
    ELSE IF c.name = "ChangeVariableBy" THEN IntV(3) ELSE IntV(5)

ValuePort(name) == IF name = "MoveSteps" THEN "STEPS" ELSE "VALUE"

TrigBlocks(trig) == [j \in DOMAIN trig |-> Node(TrigID(j), trig[j], NoneV)]

TrigConsts(trig) ==
    Flatten([j \in DOMAIN trig |->
        IF trig[j] = "WhenKeyPressed"
        THEN <<Node(TrigID(j) \o "_key", "Constant", StrV("space"))>> ELSE <<>>])

TrigEdges(trig) ==
    Flatten([j \in DOMAIN trig |->
        IF trig[j] = "WhenKeyPressed"
        THEN <<Edge(TrigID(j) \o "_key", "", TrigID(j), "KEY_OPTION")>> ELSE <<>>])

StmtBlocks(stmts) ==
    Flatten([i \in DOMAIN stmts |->
        <<Node(StmtID(i), stmts[i].name, NoneV)>>
        \o (IF stmts[i].name = "If"
            THEN (IF stmts[i].arg = "missing" THEN <<>>
                  ELSE <<Node(StmtID(i) \o "_cond", stmts[i].arg, NoneV)>>)
                 \o <<Node(StmtID(i) \o "_body", "MoveSteps", NoneV)>>
            ELSE <<>>)])

StmtConsts(stmts) ==
    Flatten([i \in DOMAIN stmts |->
        IF stmts[i].name = "If"
        THEN (IF stmts[i].arg = "Equals"
              THEN <<Node(StmtID(i) \o "_cond_val", "Constant", IntV(5))>> ELSE <<>>)
             \o <<Node(StmtID(i) \o "_body_val", "Constant", IntV(5))>>
        ELSE (IF stmts[i].name = "MoveSteps" THEN <<>>
              ELSE <<Node(StmtID(i) \o "_var", "Constant", StrV("x"))>>)
             \o (IF stmts[i].arg = "missing" THEN <<>>
                 ELSE <<Node(StmtID(i) \o "_val", "Constant", ArgConst(stmts[i]))>>)])

ChainEdges(trig, stmts) ==
    Flatten([i \in DOMAIN stmts |->
        IF i > 1 THEN <<Edge(StmtID(i - 1), "THEN", StmtID(i), "EXEC")>>
        ELSE IF trig # <<>> THEN <<Edge(TrigID(1), "THEN", StmtID(1), "EXEC")>>
        ELSE <<>>])

StmtEdges(stmts) ==
    Flatten([i \in DOMAIN stmts |->
        IF stmts[i].name = "If"
        THEN (IF stmts[i].arg = "missing" THEN <<>>
              ELSE <<Edge(StmtID(i) \o "_cond", "VALUE", StmtID(i), "CONDITION")>>)
             \o (IF stmts[i].arg = "Equals"
                 THEN <<Edge(StmtID(i) \o "_cond_val", "", StmtID(i) \o "_cond", "OPERAND1"),
                        Edge(StmtID(i) \o "_cond_val", "", StmtID(i) \o "_cond", "OPERAND2")>>
                 ELSE <<>>)
             \o <<Edge(StmtID(i), "SUBSTACK", StmtID(i) \o "_body", "EXEC"),
                  Edge(StmtID(i) \o "_body_val", "", StmtID(i) \o "_body", "STEPS")>>
        ELSE (IF stmts[i].name = "MoveSteps" THEN <<>>
              ELSE <<Edge(StmtID(i) \o "_var", "", StmtID(i), "VARIABLE")>>)
             \o (IF stmts[i].arg = "missing" THEN <<>>
                 ELSE <<Edge(StmtID(i) \o "_val", "", StmtID(i), ValuePort(stmts[i].name))>>)])

ExtraEdges(trig, stmts, extra) ==
    (IF "back" \in extra /\ stmts # <<>>
     THEN <<Edge(StmtID(Len(stmts)), "THEN", StmtID(1), "EXEC")>> ELSE <<>>)
    \o (IF "ghost" \in extra /\ trig # <<>>
        THEN <<Edge(TrigID(1), "THEN", "ghost", "EXEC")>> ELSE <<>>)

MakeGraph(trig, stmts, extra) ==
    [nodes |-> TrigBlocks(trig) \o StmtBlocks(stmts) \o TrigConsts(trig) \o StmtConsts(stmts),
     edges |-> ChainEdges(trig, stmts) \o StmtEdges(stmts) \o TrigEdges(trig)
               \o ExtraEdges(trig, stmts, extra)]

NoFile == [empty |-> TRUE, error |-> "unset", program |-> <<>>]

Init ==
    /\ pc = "start"
    /\ \E trig \in SeqsUpTo(TriggerKinds, MaxTriggers), stmts \in SeqsUpTo(StmtChoices, MaxStmts),
          extra \in Extras :
          graph = MakeGraph(trig, stmts, extra)
    /\ ordered_ids = NoOutcome
    /\ agent_b_graph = "unused"
    /\ node_reference = "unused"
    /\ wiring = "unused"
    /\ agent_a_graph = "unused"
    /\ out_file = NoFile
    /\ run = run_program(NoFile)

\* pipeline(repr_choice, model_choice, query, filepath, logpath) on the graph
\* the agent returned.
Pipeline ==
    /\ pc = "start"
    /\ ordered_ids' = topological_sort(graph)
    /\ out_file' = pipeline(graph)
    /\ pc' = "emitted"
    /\ UNCHANGED <<graph, agent_b_graph, node_reference, agent_a_graph, wiring, run>>

\* subprocess.run(["python", filepath]) (main.py:176-178)
RunProgram ==
    /\ pc = "emitted"
    /\ run' = run_program(out_file)
    /\ pc' = "ran"
    /\ UNCHANGED <<graph, ordered_ids, agent_b_graph, node_reference, agent_a_graph, wiring, out_file>>

Next == Pipeline \/ RunProgram

Spec == Init /\ [][Next]_vars

(***************************************************************************)
(* Claims about topological_sort and pipeline                              *)
(***************************************************************************)
Before(ids, x, y) == IndexOf(ids, x) # 0 /\ IndexOf(ids, y) # 0 /\ IndexOf(ids, x) < IndexOf(ids, y)

\* C1: for every acyclic graph whose edges only reference declared nodes,
\* topological_sort returns a list holding every declared node id exactly
\* once, in which the source of every edge comes before its target.
C1_TopoSortOrdersEveryNode ==
    (pc = "sorted" /\ ~HasCycle(graph) /\ EdgesDeclared(graph)) =>
        /\ ordered_ids.err = "none"
        /\ Len(ordered_ids.ids) = Len(graph.nodes)
        /\ \A n \in NodeIDsOf(graph) : Count(ordered_ids.ids, n) = 1
        /\ \A k \in DOMAIN graph.edges :
              Before(ordered_ids.ids, graph.edges[k].outNodeID, graph.edges[k].inNodeID)

\* C1 witness: an acyclic graph on three declared nodes whose edges force an
\* order other than the declaration order, sorted.
C1_Witness ==
    /\ pc = "sorted" /\ ~HasCycle(graph) /\ EdgesDeclared(graph)
    /\ Len(graph.nodes) = 3 /\ Len(graph.edges) >= 2
    /\ ordered_ids.ids = <<"c", "b", "a">>

\* C2 (as stated): for every graph with a cycle over its edges,
\* topological_sort raises the not-a-DAG error and pipeline writes the
\* program file empty.
C2_CycleRaisesNotADag ==
    (pc # "start" /\ HasCycle(graph)) =>
        /\ ordered_ids.err = "ValueError: Graph is not a DAG"
        /\ out_file.empty

StrsOf(vals) == [k \in DOMAIN vals |-> IF vals[k].t = "str" THEN vals[k].s ELSE "<not a string>"]

\* The graph of the end-to-end scenario: WhenFlagClicked -> SetVariable(x, 5)
\* -> ChangeVariableBy(x, 3), chained by THEN->EXEC edges.
ScenarioGraph ==
    MakeGraph(<<"WhenFlagClicked">>,
              <<[name |-> "SetVariable", arg |-> "int"],
                [name |-> "ChangeVariableBy", arg |-> "int"]>>, {})

\* C8 (amended): the scenario graph compiles to a single script whose trace
\* is ["Program started", "Set x to 5", "Changed x by 3"] (the trigger's own
\* outcome comes first) and whose final context has var_x = 8.0.
C8_ScenarioTraceWithTrigger ==
    (pc = "ran" /\ graph = ScenarioGraph) =>
        /\ run.err = "none" /\ run.executed
        /\ Len(run.scripts) = 1 /\ Len(run.results) = 1
        /\ StrsOf(run.results[1]) = <<"Program started", "Set x to 5", "Changed x by 3">>
        /\ "var_x" \in DOMAIN run.final_context
        /\ run.final_context["var_x"] = FloatV(8)

\* C8 witness: the scenario graph has been compiled and run.
C8_Witness == pc = "ran" /\ graph = ScenarioGraph /\ run.executed

\* C8 (as stated): the trace of the scenario is exactly
\* ["Set x to 5", "Changed x by 3"] and var_x is 8.0.
C8_ScenarioTraceAsStated ==
    (pc = "ran" /\ graph = ScenarioGraph) =>
        /\ run.err = "none" /\ Len(run.results) = 1
        /\ StrsOf(run.results[1]) = <<"Set x to 5", "Changed x by 3">>
        /\ "var_x" \in DOMAIN run.final_context
        /\ run.final_context["var_x"] = FloatV(8)

\* C9 (as stated): once the program has been built, execute never ends in an
\* error, whatever the block tree and the input values.
C9_ExecuteNeverRaises ==
    (pc = "ran" /\ run.executed) => run.err = "none"

TriggerIDs(g) == {g.nodes[k].id : k \in {j \in DOMAIN g.nodes : IsTrigger(g.nodes[j].name)}}

\* C10 (as stated): a graph with k trigger nodes yields a program that
\* registers exactly k scripts, one root per trigger node.
C10_OneScriptPerTrigger ==
    (pc = "ran" /\ run.executed) =>
        /\ Len(run.scripts) = Cardinality(TriggerIDs(graph))
        /\ {v.s : v \in Range(run.scripts)} = TriggerIDs(graph)

(***************************************************************************)
(* convert_repr (utils.py:44-149)                                          *)
(* An adjacency-form graph is the ordered dict of its nodes: a sequence of  *)
(* [id, nodeName, value, edges], edges a sequence of [portID, otherNodeID]. *)
(***************************************************************************)
BNode(id, name, value, edges) == [id |-> id, nodeName |-> name, value |-> value, edges |-> edges]
BEdge(port, other) == [portID |-> port, otherNodeID |-> other]

b_has(b_graph, id) == \E k \in DOMAIN b_graph : b_graph[k].id = id
b_get(b_graph, id) == b_graph[CHOOSE k \in DOMAIN b_graph : b_graph[k].id = id]

DirectionError == "ValueError: Could not determine edge direction"

\* lines 67-71: the port of the first edge of the peer that points back.
RECURSIVE reciprocal_port(_, _)
reciprocal_port(other_edges, node_id) ==
    IF other_edges = <<>> THEN ""
    ELSE IF Head(other_edges).otherNodeID = node_id THEN Head(other_edges).portID
    ELSE reciprocal_port(Tail(other_edges), node_id)

\* lines 73-75: the sorted pair of (node, port) endpoints, i.e. the pair
\* without its order.
connection_id(node_id, port_id, other_node_id, other_port_id) ==
    {<<node_id, port_id>>, <<other_node_id, other_port_id>>}

schema_get(reference, name) ==
    IF name \in DOMAIN reference THEN reference[name] ELSE Schema(<<>>, <<>>, <<>>)

port_is_output(schema, port) == port \in Range(schema.outPorts)
port_is_input(schema, port) == port \in Range(schema.inPorts) \cup Range(schema.fields)

\* lines 82-138: the direction of one connection.
edge_direction(reference, node_id, node_name, port_id, other_node_id, other_node_name, other_port_id) ==
    IF node_name = "Constant"
    THEN [err |-> "none", edge |-> Edge(node_id, "", other_node_id, other_port_id)]
    ELSE IF other_node_name = "Constant"
    THEN [err |-> "none", edge |-> Edge(other_node_id, "", node_id, port_id)]
    ELSE IF /\ port_is_output(schema_get(reference, node_name), port_id)
            /\ port_is_input(schema_get(reference, other_node_name), other_port_id)
    THEN [err |-> "none", edge |-> Edge(node_id, port_id, other_node_id, other_port_id)]
    ELSE IF /\ port_is_output(schema_get(reference, other_node_name), other_port_id)
            /\ port_is_input(schema_get(reference, node_name), port_id)
    THEN [err |-> "none", edge |-> Edge(other_node_id, other_port_id, node_id, port_id)]
    ELSE [err |-> DirectionError, edge |-> Edge("", "", "", "")]

\* lines 140-147: the edge is appended.
append_edge(st, cid, d) ==
    IF d.err # "none" THEN [st EXCEPT !.err = d.err, !.processed = @ \cup {cid}]
    ELSE [err |-> "none", processed |-> st.processed \cup {cid}, edges |-> Append(st.edges, d.edge)]

\* lines 73-147 for one edge whose peer's port is known.
convert_pair(reference, node, edge, other, other_port_id, st) ==
    IF connection_id(node.id, edge.portID, other.id, other_port_id) \in st.processed THEN st
    ELSE append_edge(st, connection_id(node.id, edge.portID, other.id, other_port_id),
                     edge_direction(reference, node.id, node.nodeName, edge.portID,
                                    other.id, other.nodeName, other_port_id))

\* lines 62-147: one pass of the inner loop; line 64 raises KeyError for a
\* peer that is not a node of the graph.
convert_edge(b_graph, reference, node, edge, st) ==
    IF ~b_has(b_graph, edge.otherNodeID) THEN [st EXCEPT !.err = "KeyError: otherNodeID"]
    ELSE convert_pair(reference, node, edge, b_get(b_graph, edge.otherNodeID),
                      reciprocal_port(b_get(b_graph, edge.otherNodeID).edges, node.id), st)

\* line 61: the loop over the edges of one node.
RECURSIVE convert_edges(_, _, _, _, _)
convert_edges(b_graph, reference, node, edges, st) ==
    IF edges = <<>> \/ st.err # "none" THEN st
    ELSE convert_edges(b_graph, reference, node, Tail(edges),
                       convert_edge(b_graph, reference, node, Head(edges), st))

\* lines 55-61: the loop over the nodes; a node of a kind that is neither
\* in the reference nor Constant is skipped.
RECURSIVE convert_nodes(_, _, _, _)
convert_nodes(b_graph, reference, nodes, st) ==
    IF nodes = <<>> \/ st.err # "none" THEN st
    ELSE IF Head(nodes).nodeName \notin DOMAIN reference /\ Head(nodes).nodeName # "Constant"
    THEN convert_nodes(b_graph, reference, Tail(nodes), st)
    ELSE convert_nodes(b_graph, reference, Tail(nodes),
                       convert_edges(b_graph, reference, Head(nodes), Head(nodes).edges, st))

\* lines 45-51 and 149: the nodes are copied, the edges are the ones
\* collected; an exception leaves no graph.
convert_result(b_graph, st) ==
    IF st.err # "none" THEN [err |-> st.err, nodes |-> <<>>, edges |-> <<>>]
    ELSE [err |-> "none",
          nodes |-> [k \in DOMAIN b_graph |-> Node(b_graph[k].id, b_graph[k].nodeName, b_graph[k].value)],
          edges |-> st.edges]

convert_repr(b_graph, reference) ==
    convert_result(b_graph,
                   convert_nodes(b_graph, reference, b_graph,
                                 [err |-> "none", processed |-> {}, edges |-> <<>>]))

(***************************************************************************)
(* SpecConvert: convert_repr on the adjacency form of two nodes a and b     *)
(* joined by up to MaxWires wires.  Each node lists its end of every wire   *)
(* in wire order; the last wire may be declared on one end only.            *)
(***************************************************************************)
ConvKinds == {"Constant", "MoveSteps", "If"}

\* A reference in which MoveSteps lists EXEC among its outPorts as well.
AmbiguousRef == [REF EXCEPT !["MoveSteps"].outPorts = <<"THEN", "EXEC">>]

ConvReferences == {REF, AmbiguousRef}

\* The port ids a node of a kind may list: a Constant names its single port
\* VALUE (agents.py:75) or leaves it unnamed.
ListedPorts(kind) ==
    IF kind = "Constant" THEN {"", "VALUE"}
    ELSE Range(REF[kind].inPorts) \cup Range(REF[kind].fields) \cup Range(REF[kind].outPorts)

Wires(ka, kb) == [pa : ListedPorts(ka), pb : ListedPorts(kb)]

Declarations == {"both", "a", "b"}

ConstValue(kind) == IF kind = "Constant" THEN IntV(5) ELSE NoneV

RECURSIVE ends_of(_, _, _, _)
ends_of(side, ws, k, declared) ==
    IF k > Len(ws) THEN <<>>
    ELSE IF k = Len(ws) /\ declared \notin {"both", side} THEN <<>>
    ELSE <<BEdge(IF side = "a" THEN ws[k].pa ELSE ws[k].pb, IF side = "a" THEN "b" ELSE "a")>>
         \o ends_of(side, ws, k + 1, declared)

MakeAdjacency(w) ==
    <<BNode("a", w.ka, ConstValue(w.ka), ends_of("a", w.wires, 1, w.declared)),
      BNode("b", w.kb, ConstValue(w.kb), ends_of("b", w.wires, 1, w.declared))>>

InitConvert ==
    /\ pc = "start"
    /\ \E ka \in ConvKinds, kb \in ConvKinds :
         \E ws \in SeqsUpTo(Wires(ka, kb), MaxWires), declared \in Declarations :
            /\ (ws = <<>> => declared = "both")
            /\ wiring = [ka |-> ka, kb |-> kb, wires |-> ws, declared |-> declared]
    /\ agent_b_graph = MakeAdjacency(wiring)
    /\ node_reference \in ConvReferences
    /\ agent_a_graph = "unused"
    /\ graph = "unused"
    /\ ordered_ids = "unused"
    /\ out_file = "unused"
    /\ run = "unused"

ConvertRepr ==
    /\ pc = "start"
    /\ agent_a_graph' = convert_repr(agent_b_graph, node_reference)
    /\ pc' = "converted"
    /\ UNCHANGED <<graph, ordered_ids, agent_b_graph, node_reference, wiring, out_file, run>>

NextConvert == ConvertRepr

SpecConvert == InitConvert /\ [][NextConvert]_vars

(***************************************************************************)
(* Claims about convert_repr                                               *)
(***************************************************************************)
\* The orientations of a wire that the reference allows: a Constant end is
\* a source only, any other end is a source on an output port and a target
\* on an input port or field.
CanSource(reference, kind, port) ==
    kind = "Constant" \/ port_is_output(schema_get(reference, kind), port)
CanTarget(reference, kind, port) ==
    kind # "Constant" /\ port_is_input(schema_get(reference, kind), port)
Forward(reference, w, wire) ==
    CanSource(reference, w.ka, wire.pa) /\ CanTarget(reference, w.kb, wire.pb)
Backward(reference, w, wire) ==
    CanSource(reference, w.kb, wire.pb) /\ CanTarget(reference, w.ka, wire.pa)

SourcePort(kind, port) == IF kind = "Constant" THEN "" ELSE port

\* The canonical edge of a wire that has exactly one allowed orientation.
WireEdge(reference, w, wire) ==
    IF Forward(reference, w, wire)
    THEN Edge("a", SourcePort(w.ka, wire.pa), "b", wire.pb)
    ELSE Edge("b", SourcePort(w.kb, wire.pb), "a", wire.pa)

WireEdges(reference, w) == [k \in DOMAIN w.wires |-> WireEdge(reference, w, w.wires[k])]

\* Every wire is declared on both ends, has exactly one allowed orientation,
\* and no two wires are the same connection.
WellWired(reference, w) ==
    /\ w.declared = "both"
    /\ \A k \in DOMAIN w.wires : Forward(reference, w, w.wires[k]) # Backward(reference, w, w.wires[k])
    /\ \A j, k \in DOMAIN w.wires :
          j # k => WireEdge(reference, w, w.wires[j]) # WireEdge(reference, w, w.wires[k])

\* C3 (as stated): when every connection is declared on both of its ends,
\* convert_repr emits exactly one canonical edge per wire, also when the two
\* nodes are joined by several wires: none twice, none dropped, none that
\* pairs a port with the wrong peer port.
C3_OneEdgePerWire ==
    (pc = "converted" /\ WellWired(node_reference, wiring)) =>
        /\ agent_a_graph.err = "none"
        /\ Len(agent_a_graph.edges) = Len(wiring.wires)
        /\ \A k \in DOMAIN wiring.wires :
              Count(agent_a_graph.edges, WireEdge(node_reference, wiring, wiring.wires[k])) = 1

\* The edge-list encoding of the same graph, which pipeline uses as it is
\* (main.py:23-28).
EdgeListEncoding(reference, w) ==
    [nodes |-> <<Node("a", w.ka, ConstValue(w.ka)), Node("b", w.kb, ConstValue(w.kb))>>,
     edges |-> WireEdges(reference, w)]

\* C4 (as stated): the adjacency form of a graph normalises to the same
\* nodes and the same set of canonical edges as its edge-list encoding.
C4_EncodingsAgree ==
    (pc = "converted" /\ WellWired(node_reference, wiring)) =>
        /\ agent_a_graph.err = "none"
        /\ Range(agent_a_graph.nodes) = Range(EdgeListEncoding(node_reference, wiring).nodes)
        /\ Range(agent_a_graph.edges) = Range(EdgeListEncoding(node_reference, wiring).edges)

KindOf(id) == b_get(agent_b_graph, id).nodeName

\* C5 (as stated): no edge emitted by convert_repr has a Constant node as
\* its target, whatever the peer of the Constant is.
C5_ConstantNeverTarget ==
    pc = "converted" =>
        \A k \in DOMAIN agent_a_graph.edges : KindOf(agent_a_graph.edges[k].inNodeID) # "Constant"

\* C6 (as stated): a connection between two non-Constant nodes for which
\* neither orientation or both orientations are allowed makes convert_repr
\* fail with the edge-direction error.
C6_DirectionErrorWhenNotUnique ==
    (/\ pc = "converted"
     /\ Len(wiring.wires) = 1 /\ wiring.declared = "both"
     /\ wiring.ka # "Constant" /\ wiring.kb # "Constant"
     /\ Forward(node_reference, wiring, wiring.wires[1]) = Backward(node_reference, wiring, wiring.wires[1]))
    => agent_a_graph.err = DirectionError

\* C7 (as stated): every emitted edge leaves an output port of its source
\* node's kind (the unnamed port for a Constant) and enters an input port or
\* field of its target node's kind.
C7_EdgesAreWellTyped ==
    pc = "converted" =>
        \A k \in DOMAIN agent_a_graph.edges :
            /\ IF KindOf(agent_a_graph.edges[k].outNodeID) = "Constant"
               THEN agent_a_graph.edges[k].outPortID = ""
               ELSE port_is_output(schema_get(node_reference, KindOf(agent_a_graph.edges[k].outNodeID)),
                                   agent_a_graph.edges[k].outPortID)
            /\ CanTarget(node_reference, KindOf(agent_a_graph.edges[k].inNodeID),
                         agent_a_graph.edges[k].inPortID)

(***************************************************************************)
(* SpecBuild: pipeline and the run of its output on graphs that differ in  *)
(* how the data ports of two chained SetVariable statements are fed: each  *)
(* port by up to MaxProducers edges, each from a Constant of its own or     *)
(* from the one MouseDown reporter r.                                       *)
(***************************************************************************)
ProducerKinds == {"const", "reporter"}

ProducerID(stmt, port, k, kind) ==
    IF kind = "reporter" THEN "r" ELSE stmt \o "_" \o lower(port) \o ToString(k)

ProducerValue(port, k) ==
    IF port = "VARIABLE" THEN (IF k = 1 THEN StrV("x") ELSE StrV("y")) ELSE IntV(4 + k)

PortConsts(stmt, port, ps) ==
    Flatten([k \in DOMAIN ps |->
        IF ps[k] = "const"
        THEN <<Node(ProducerID(stmt, port, k, "const"), "Constant", ProducerValue(port, k))>>
        ELSE <<>>])

PortEdges(stmt, port, ps) ==
    [k \in DOMAIN ps |->
        Edge(ProducerID(stmt, port, k, ps[k]), IF ps[k] = "reporter" THEN "VALUE" ELSE "",
             stmt, port)]

BuildGraph(var1, val1, val2) ==
    [nodes |-> <<Node("t1", "WhenFlagClicked", NoneV), Node("s1", "SetVariable", NoneV),
                 Node("s2", "SetVariable", NoneV), Node("r", "MouseDown", NoneV)>>
               \o PortConsts("s1", "VARIABLE", var1) \o PortConsts("s1", "VALUE", val1)
               \o PortConsts("s2", "VARIABLE", <<"const">>) \o PortConsts("s2", "VALUE", val2),
     edges |-> <<Edge("t1", "THEN", "s1", "EXEC"), Edge("s1", "THEN", "s2", "EXEC")>>
               \o PortEdges("s1", "VARIABLE", var1) \o PortEdges("s1", "VALUE", val1)
               \o PortEdges("s2", "VARIABLE", <<"const">>) \o PortEdges("s2", "VALUE", val2)]

InitBuild ==
    /\ pc = "start"
    /\ \E var1 \in SeqsUpTo(ProducerKinds, MaxProducers),
          val1 \in SeqsUpTo(ProducerKinds, MaxProducers),
          val2 \in SeqsUpTo(ProducerKinds, MaxProducers) :
          graph = BuildGraph(var1, val1, val2)
    /\ ordered_ids = NoOutcome
    /\ agent_b_graph = "unused"
    /\ node_reference = "unused"
    /\ wiring = "unused"
    /\ agent_a_graph = "unused"
    /\ out_file = NoFile
    /\ run = run_program(NoFile)

SpecBuild == InitBuild /\ [][Next]_vars

(***************************************************************************)
(* Claims about the builder's validation of data ports                     *)
(***************************************************************************)
DataPorts(name) == Range(SelectSeq(REF[name].inPorts \o REF[name].fields, LAMBDA p : p # "EXEC"))

EdgesInto(g, id, port) ==
    {k \in DOMAIN g.edges : g.edges[k].inNodeID = id /\ g.edges[k].inPortID = port}

BlockNodes(g) == {k \in DOMAIN g.nodes : g.nodes[k].name \in DOMAIN REF}

\* Some declared input port or field, other than EXEC, has no incoming edge.
HasMissingPort(g) ==
    \E k \in BlockNodes(g) : \E p \in DataPorts(g.nodes[k].name) :
        EdgesInto(g, g.nodes[k].id, p) = {}

NoAbsentArgument(file) ==
    \A k \in DOMAIN file.program : \A j \in DOMAIN file.program[k].params :
        file.program[k].params[j][2] # "None"

\* C11 (as stated): a graph in which a non-Constant node has a declared input
\* port or field (other than EXEC) without an incoming edge is rejected: no
\* program is produced, and no port of an emitted constructor is bound to an
\* absent value.
C11_MissingPortRejected ==
    (pc # "start" /\ HasMissingPort(graph)) =>
        /\ out_file.empty
        /\ NoAbsentArgument(out_file)

\* Two edges end on the same port of the same node.
HasDuplicateProducer(g) ==
    \E j, k \in DOMAIN g.edges :
        /\ j # k
        /\ g.edges[j].inNodeID = g.edges[k].inNodeID
        /\ g.edges[j].inPortID = g.edges[k].inPortID

\* C12 (as stated): a graph in which two or more edges target the same
\* (node, input port) is rejected and no program is produced.
C12_DuplicateProducerRejected ==
    (pc # "start" /\ HasDuplicateProducer(graph)) => out_file.empty

NodeNamed(g, id) == IF id \in NodeIDsOf(g) THEN NodeOf(g, id).name ELSE "undeclared"

\* An edge into a field comes from a node that is no Constant.
HasFieldFedByBlock(g) ==
    \E k \in DOMAIN g.edges :
        /\ NodeNamed(g, g.edges[k].inNodeID) \in DOMAIN REF
        /\ g.edges[k].inPortID \in Range(REF[NodeNamed(g, g.edges[k].inNodeID)].fields)
        /\ NodeNamed(g, g.edges[k].outNodeID) # "Constant"

FieldsAreLiterals(heap) ==
    \A id \in DOMAIN heap : \A f \in DOMAIN heap[id].fields : heap[id].fields[f].t # "block"

\* C13 (as stated): a graph whose field port is fed by a non-Constant node is
\* rejected, and in every built program each field of each runtime block
\* holds a literal, never a block.
C13_FieldsHoldLiterals ==
    /\ (pc # "start" /\ HasFieldFedByBlock(graph)) => out_file.empty
    /\ pc = "ran" => FieldsAreLiterals(run.heap)

InputOwners(heap, id) ==
    {b \in DOMAIN heap : \E p \in DOMAIN heap[b].inputs : heap[b].inputs[p] = BlockV(id)}
BodyOwners(heap, id) ==
    {b \in DOMAIN heap : BlockV(id) \in Range(heap[b].substack) \cup Range(heap[b].substack2)}
NextOwners(heap, id) == {b \in DOMAIN heap : heap[b].next_block = BlockV(id)}

\* C19 (as stated): in every built program each runtime block has at most one
\* owner, counting the blocks that hold it as an input, the blocks that hold
\* it in a body list and the blocks whose next-successor it is.
C19_SingleOwner ==
    (pc = "ran" /\ run.executed) =>
        \A id \in DOMAIN run.heap :
            Cardinality(InputOwners(run.heap, id)) + Cardinality(BodyOwners(run.heap, id))
                + Cardinality(NextOwners(run.heap, id)) <= 1

(***************************************************************************)
(* SpecTurns: turn blocks constructed and evaluated one after another on   *)
(* the default context, as ScratchProgram.execute evaluates a script of    *)
(* them.  run holds the context and the record of the calls made.          *)
(***************************************************************************)
Degrees == {0 - 380, 0 - 20, 20, 90, 350}

InitTurns ==
    /\ pc = "turning"
    /\ run = [context |-> DefaultContext, calls |-> <<>>]
    /\ graph = "unused"
    /\ ordered_ids = "unused"
    /\ agent_b_graph = "unused"
    /\ node_reference = "unused"
    /\ wiring = "unused"
    /\ agent_a_graph = "unused"
    /\ out_file = "unused"

\* The call block.execute(context) of a block built with the argument d,
\* recorded with the heading before and after it.
called(name, d, before, r) ==
    [context |-> r.ctx,
     calls |-> Append(run.calls, [name |-> name, arg |-> d, before |-> before,
                                  after |-> r.ctx["direction"], val |-> r.val, err |-> r.err])]

turned(name, port, d) ==
    called(name, d, run.context["direction"],
           Exec([b \in {"b"} |-> NewBlock(name, [p \in {port} |-> IntV(d)], EmptyFn)],
                "b", run.context))

\* TurnRightBlock(d).execute(context)
TurnRight ==
    /\ Len(run.calls) < MaxTurns
    /\ \E d \in Degrees : run' = turned("TurnRight", "DEGREES", d)
    /\ UNCHANGED <<pc, graph, ordered_ids, agent_b_graph, node_reference, agent_a_graph,
                   wiring, out_file>>

\* TurnLeftBlock(d).execute(context)
TurnLeft ==
    /\ Len(run.calls) < MaxTurns
    /\ \E d \in Degrees : run' = turned("TurnLeft", "DEGREES", d)
    /\ UNCHANGED <<pc, graph, ordered_ids, agent_b_graph, node_reference, agent_a_graph,
                   wiring, out_file>>

\* PointInDirectionBlock(d).execute(context)
PointInDirection ==
    /\ Len(run.calls) < MaxTurns
    /\ \E d \in Degrees : run' = turned("PointInDirection", "DIRECTION", d)
    /\ UNCHANGED <<pc, graph, ordered_ids, agent_b_graph, node_reference, agent_a_graph,
                   wiring, out_file>>

NextTurns == TurnRight \/ TurnLeft \/ PointInDirection

SpecTurns == InitTurns /\ [][NextTurns]_vars

(***************************************************************************)
(* Claim about the heading                                                 *)
(***************************************************************************)
SameAngle(a, b) == \E j \in (0 - 4)..4 : a = b + 360 * j

\* C14: starting from the default context, after any sequence of TurnRight,
\* TurnLeft and PointInDirection blocks with integer arguments of either
\* sign, context["direction"] is an integer in [0, 360); TurnRight(d) sets
\* it to (direction + d) mod 360 and TurnLeft(d) to (direction - d) mod 360
\* (350 then TurnRight(20) gives 10; 10 then TurnLeft(20) gives 350).
C14_HeadingNormalized ==
    /\ run.context["direction"].t = "int"
    /\ run.context["direction"].n \in 0..359
    /\ \A k \in DOMAIN run.calls :
          LET c == run.calls[k]
          IN  /\ c.err = "none"
              /\ c.after.t = "int"
              /\ c.after.n \in 0..359
              /\ c.name = "TurnRight" => SameAngle(c.after.n, c.before.n + c.arg)
              /\ c.name = "TurnLeft" => SameAngle(c.after.n, c.before.n - c.arg)
              /\ c.name = "PointInDirection" => SameAngle(c.after.n, c.arg)
              /\ (c.name = "TurnRight" /\ c.before.n = 350 /\ c.arg = 20) => c.after.n = 10
              /\ (c.name = "TurnLeft" /\ c.before.n = 10 /\ c.arg = 20) => c.after.n = 350
              /\ k < Len(run.calls) => run.calls[k + 1].before = c.after
              /\ k = Len(run.calls) => run.context["direction"] = c.after

C14_Witness ==
    \E k \in DOMAIN run.calls :
        /\ k > 1
        /\ run.calls[k - 1].name = "TurnRight"
        /\ run.calls[k - 1].before.n = 350
        /\ run.calls[k - 1].arg = 20
        /\ run.calls[k].name = "TurnLeft"
        /\ run.calls[k].before.n = 10
        /\ run.calls[k].arg = 20
        /\ run.calls[k].after.n = 350

(***************************************************************************)
(* SpecOperators: one operator block built on two operand values and       *)
(* evaluated once.  run holds the operands and the outcome of the call.    *)
(***************************************************************************)
Operands ==
    {IntV(10), IntV(2), IntV(0), IntV(0 - 4), FloatV(0), StrV("10"), StrV("9"), StrV("0"),
     StrV("a"), StrV("b"), StrV(""), NoneV}

InitOperators ==
    /\ pc = "operands"
    /\ \E op1 \in Operands, op2 \in Operands :
          run = [op1 |-> op1, op2 |-> op2, name |-> "", val |-> NoneV, err |-> "unset"]
    /\ graph = "unused"
    /\ ordered_ids = "unused"
    /\ agent_b_graph = "unused"
    /\ node_reference = "unused"
    /\ wiring = "unused"
    /\ agent_a_graph = "unused"
    /\ out_file = "unused"

returned(name, r) == [run EXCEPT !.name = name, !.val = r.val, !.err = r.err]

\* <name>Block(op1, op2).execute(context), the operands on the ports p1, p2
operated(name, p1, p2) ==
    returned(name,
             Exec([b \in {"b"} |->
                      NewBlock(name, [p \in {p1, p2} |-> IF p = p1 THEN run.op1 ELSE run.op2],
                               EmptyFn)],
                  "b", DefaultContext))

Divide ==
    /\ pc = "operands"
    /\ run' = operated("Divide", "NUM1", "NUM2")
    /\ pc' = "evaluated"
    /\ UNCHANGED <<graph, ordered_ids, agent_b_graph, node_reference, agent_a_graph, wiring,
                   out_file>>

Mod ==
    /\ pc = "operands"
    /\ run' = operated("Mod", "NUM1", "NUM2")
    /\ pc' = "evaluated"
    /\ UNCHANGED <<graph, ordered_ids, agent_b_graph, node_reference, agent_a_graph, wiring,
                   out_file>>

GreaterThan ==
    /\ pc = "operands"
    /\ run' = operated("GreaterThan", "OPERAND1", "OPERAND2")
    /\ pc' = "evaluated"
    /\ UNCHANGED <<graph, ordered_ids, agent_b_graph, node_reference, agent_a_graph, wiring,
                   out_file>>

LessThan ==
    /\ pc = "operands"
    /\ run' = operated("LessThan", "OPERAND1", "OPERAND2")
    /\ pc' = "evaluated"
    /\ UNCHANGED <<graph, ordered_ids, agent_b_graph, node_reference, agent_a_graph, wiring,
                   out_file>>

NextOperators == Divide \/ Mod \/ GreaterThan \/ LessThan

SpecOperators == InitOperators /\ [][NextOperators]_vars

(***************************************************************************)
(* Claims about the operator blocks                                        *)
(***************************************************************************)
\* The operand values that are numbers or numeric text, and their values.
Numbers == {IntV(10), IntV(2), IntV(0), IntV(0 - 4), FloatV(0), StrV("10"), StrV("9"), StrV("0")}

NumberOf(v) ==
    CASE v = StrV("10") -> 10
      [] v = StrV("9")  -> 9
      [] v = StrV("0")  -> 0
      [] OTHER          -> v.n

Infinity == PyV("float", 0, "inf", 0)
NaN == PyV("float", 0, "nan", 0)

\* The float val is the number n / d.
IsRatio(val, n, d) ==
    /\ val.t = "float"
    /\ val.s \in {"", "ratio", "-0.0"}
    /\ IF val.s = "ratio" THEN val.n * d = n * val.q ELSE val.n * d = n

\* C15: Divide returns positive infinity whenever its second operand is
\* numerically zero, for every first operand, and Mod returns NaN whenever
\* its second operand is zero; neither raises, and with a non-zero divisor
\* they return the ordinary quotient and remainder (divide(10, 2) = 5.0).
C15_DivisionByZeroSentinels ==
    (pc = "evaluated" /\ run.name \in {"Divide", "Mod"} /\ run.op2 \in Numbers) =>
        LET a == NumberOf(run.op1)
            b == NumberOf(run.op2)
        IN  /\ (b = 0 /\ run.name = "Divide") => (run.err = "none" /\ run.val = Infinity)
            /\ (b = 0 /\ run.name = "Mod") => (run.err = "none" /\ run.val = NaN)
            /\ (b # 0 /\ run.op1 \in Numbers /\ run.name = "Divide") =>
                   (run.err = "none" /\ IsRatio(run.val, a, b))
            /\ (b # 0 /\ run.op1 \in Numbers /\ run.name = "Mod") =>
                   /\ run.err = "none"
                   /\ run.val.t = "float"
                   /\ \E k \in (0 - MaxParsed)..MaxParsed : a = k * b + run.val.n
                   /\ run.val.n * run.val.n < b * b
            /\ (run.name = "Divide" /\ run.op1 = IntV(10) /\ run.op2 = IntV(2)) =>
                   run.val = FloatV(5)

C15_Witness ==
    /\ pc = "evaluated"
    /\ run.name = "Divide"
    /\ run.op1 = IntV(0 - 4)
    /\ run.op2 = StrV("0")
    /\ run.val = Infinity

\* C16 (as stated): GreaterThan and LessThan compare numerically whenever
\* both operands coerce to numbers and otherwise compare the operands' string
\* forms lexicographically; for every pair of operand values the block
\* returns a boolean and does not raise.
C16_ComparisonTotal ==
    (pc = "evaluated" /\ run.name \in {"GreaterThan", "LessThan"}) =>
        /\ run.err = "none"
        /\ run.val.t = "bool"
        /\ (run.op1 \in Numbers /\ run.op2 \in Numbers /\ run.name = "GreaterThan") =>
               run.val = BoolV(NumberOf(run.op1) > NumberOf(run.op2))
        /\ (run.op1 \in Numbers /\ run.op2 \in Numbers /\ run.name = "LessThan") =>
               run.val = BoolV(NumberOf(run.op1) < NumberOf(run.op2))
        /\ (run.name = "GreaterThan" /\ run.op1 = StrV("10") /\ run.op2 = StrV("9")) =>
               run.val = BoolV(TRUE)
        /\ (run.name = "GreaterThan" /\ run.op1 = StrV("b") /\ run.op2 = StrV("a")) =>
               run.val = BoolV(TRUE)
        /\ (run.name = "GreaterThan" /\ run.op1 = IntV(10) /\ run.op2 = StrV("a")) =>
               run.val = BoolV(FALSE)

(***************************************************************************)
(* SpecProgram: a program of up to MaxScripts scripts built through the    *)
(* constructors, connect_next and add_to_substack; then add_script for     *)
(* each script head in declaration order, and execute.  out_file holds the *)
(* construction lines and the script heads, run the state of the program.  *)
(***************************************************************************)
Lit(name, port, value, fields, body) ==
    [name |-> name, inputs |-> [p \in {port} |-> value], fields |-> fields, body |-> body]

OfX == [p \in {"VARIABLE"} |-> StrV("x")]

ScriptChoices ==
    LET SetX    == Lit("SetVariable", "VALUE", IntV(5), OfX, <<>>)
        ChangeX == Lit("ChangeVariableBy", "VALUE", IntV(3), OfX, <<>>)
        Right90 == Lit("TurnRight", "DEGREES", IntV(90), EmptyFn, <<>>)
        Left20  == Lit("TurnLeft", "DEGREES", IntV(20), EmptyFn, <<>>)
        Move5   == Lit("MoveSteps", "STEPS", IntV(5), EmptyFn, <<>>)
        Forever == [name |-> "Forever", inputs |-> EmptyFn, fields |-> EmptyFn,
                    body |-> <<ChangeX, Left20>>]
    IN  {<<SetX>>, <<ChangeX>>, <<Move5, Right90>>,
         <<Lit("Repeat", "TIMES", IntV(0), EmptyFn, <<ChangeX, Right90>>)>>,
         <<Lit("Repeat", "TIMES", IntV(0 - 1), EmptyFn, <<ChangeX>>), ChangeX>>,
         <<Lit("Repeat", "TIMES", IntV(1000), EmptyFn, <<ChangeX>>)>>,
         <<Lit("Repeat", "TIMES", IntV(1), EmptyFn, <<>>)>>,
         <<Forever>>}

HatID(i) == "h" \o ToString(i)

\* The lines that build script i: a hat block, its statements with their
\* bodies, and the connect_next calls along the script.
ScriptLines(i, stmts) ==
    LET sid(k) == "s" \o ToString(i) \o "_" \o ToString(k)
        bid(k, j) == sid(k) \o "_b" \o ToString(j)
        mk(id, d) == Stmt("make", id, d.name, [inputs |-> d.inputs, fields |-> d.fields],
                          <<>>, "")
    IN  <<Stmt("make", HatID(i), "WhenFlagClicked", [inputs |-> EmptyFn, fields |-> EmptyFn],
               <<>>, "")>>
        \o Flatten([k \in DOMAIN stmts |->
               <<mk(sid(k), stmts[k])>>
               \o Flatten([j \in DOMAIN stmts[k].body |->
                      <<mk(bid(k, j), stmts[k].body[j]),
                        Stmt("add_to_substack", sid(k), "", NoneV, <<>>, bid(k, j))>>])])
        \o [k \in DOMAIN stmts |->
               Stmt("connect_next", IF k = 1 THEN HatID(i) ELSE sid(k - 1), "", NoneV, <<>>,
                    sid(k))]

ProgramLines(scripts) == Flatten([i \in DOMAIN scripts |-> ScriptLines(i, scripts[i])])

InitProgram ==
    /\ pc = "built"
    /\ \E scripts \in SeqsUpTo(ScriptChoices, MaxScripts) :
          out_file = [empty |-> FALSE, error |-> "none", program |-> ProgramLines(scripts),
                      heads |-> [i \in DOMAIN scripts |-> HatID(i)]]
    /\ run = run_program(out_file)
    /\ graph = "unused"
    /\ ordered_ids = "unused"
    /\ agent_b_graph = "unused"
    /\ node_reference = "unused"
    /\ wiring = "unused"
    /\ agent_a_graph = "unused"

\* program.add_script(head) for the next script head in declaration order
AddScript ==
    /\ pc = "built"
    /\ Len(run.scripts) < Len(out_file.heads)
    /\ run' = add_script(run, [id |-> out_file.heads[Len(run.scripts) + 1]])
    /\ UNCHANGED <<pc, graph, ordered_ids, agent_b_graph, node_reference, agent_a_graph,
                   wiring, out_file>>

\* results, final_context = program.execute()
Execute ==
    /\ pc = "built"
    /\ run' = record_run(run, execute(run.heap, run.scripts))
    /\ pc' = "ran"
    /\ UNCHANGED <<graph, ordered_ids, agent_b_graph, node_reference, agent_a_graph, wiring,
                   out_file>>

NextProgram == AddScript \/ Execute

SpecProgram == InitProgram /\ [][NextProgram]_vars

(***************************************************************************)
(* Claims about ScratchProgram.execute and the loop blocks                 *)
(***************************************************************************)
\* The blocks of the script that starts at v, along next_block.
RECURSIVE ChainOf(_, _)
ChainOf(heap, v) ==
    IF v.t # "block" THEN <<>> ELSE <<v.s>> \o ChainOf(heap, heap[v.s].next_block)

\* The blocks of script i: its chain and the members of their body lists.
ScriptBlocks(i) ==
    Range(ChainOf(run.heap, run.scripts[i]))
    \cup {b.s : b \in UNION {Range(run.heap[id].substack) :
                              id \in Range(ChainOf(run.heap, run.scripts[i]))}}

\* The context script i starts on, when every script before it ran on the
\* context its predecessor left.
RECURSIVE ContextBefore(_)
ContextBefore(i) ==
    IF i = 1 THEN DefaultContext
    ELSE execute_script(run.heap, run.scripts[i - 1], ContextBefore(i - 1)).ctx

\* C17: execute runs the scripts one after another in the order they were
\* added: every block of script i is evaluated before any block of script
\* i+1, the i-th result list belongs to the i-th script, and all scripts
\* work on the one shared context (defaults x=0, y=0, direction=0, size=100),
\* so the changes of an earlier script are seen by the later ones and by the
\* returned final context.
C17_ScriptsRunInOrder ==
    (pc = "ran" /\ run.err = "none") =>
        /\ Len(run.results) = Len(run.scripts)
        /\ \A i \in DOMAIN run.scripts : ScriptBlocks(i) \subseteq Range(run.log)
        /\ \A i \in DOMAIN run.scripts, j \in DOMAIN run.scripts :
              i < j => \A p \in DOMAIN run.log, q \in DOMAIN run.log :
                          (run.log[p] \in ScriptBlocks(i) /\ run.log[q] \in ScriptBlocks(j))
                              => p < q
        /\ \A i \in DOMAIN run.scripts :
              /\ Len(run.results[i]) = Len(ChainOf(run.heap, run.scripts[i]))
              /\ run.results[i] =
                     execute_script(run.heap, run.scripts[i], ContextBefore(i)).val
        /\ run.final_context = ContextBefore(Len(run.scripts) + 1)
        /\ (run.scripts = <<>>) => run.final_context =
               [k \in {"x", "y", "direction", "size"} |->
                   IF k = "size" THEN IntV(100) ELSE IntV(0)]
        /\ (/\ Len(run.scripts) = 2
            /\ DOMAIN run.heap = {"h1", "s1_1", "h2", "s2_1"}
            /\ run.heap["s1_1"].name = "SetVariable"
            /\ run.heap["s2_1"].name = "ChangeVariableBy")
               => /\ run.final_context["var_x"] = FloatV(8)
                  /\ run.results = << <<StrV("Program started"), StrV("Set x to 5")>>,
                                      <<StrV("Program started"), StrV("Changed x by 3")>> >>

C17_Witness ==
    /\ pc = "ran"
    /\ run.err = "none"
    /\ run.log = <<"h1", "s1_1", "h2", "s2_1">>
    /\ run.heap["s1_1"].name = "SetVariable"
    /\ run.heap["s2_1"].name = "ChangeVariableBy"
    /\ run.final_context["var_x"] = FloatV(8)

ChainEdgeUniverse ==
    {Edge(o, "THEN", i, "EXEC") : o \in Range(TopoIDs), i \in Range(TopoIDs)}
    \cup {Edge("a", "SUBSTACK", "b", "EXEC"), Edge("b", "SUBSTACK", "c", "EXEC"),
          Edge("c", "THEN", "a", "VALUE")}

InitChain ==
    /\ pc = "start"
    /\ \E es \in SeqsUpTo(ChainEdgeUniverse, MaxEdges), id \in Range(TopoIDs) :
          /\ graph = [nodes |-> <<>>, edges |-> es]
          /\ run = [id |-> id, chain |-> <<>>]
    /\ ordered_ids = "unused"
    /\ agent_b_graph = "unused"
    /\ node_reference = "unused"
    /\ wiring = "unused"
    /\ agent_a_graph = "unused"
    /\ out_file = "unused"

\* chain = get_execution_chain(id, edges)
GetExecutionChain ==
    /\ pc = "start"
    /\ run' = [run EXCEPT !.chain = get_execution_chain(run.id, graph.edges)]
    /\ pc' = "returned"
    /\ UNCHANGED <<graph, ordered_ids, agent_b_graph, node_reference, agent_a_graph, wiring,
                   out_file>>

NextChain == GetExecutionChain

SpecChain == InitChain /\ [][NextChain]_vars

(***************************************************************************)
(* Claim about get_execution_chain                                         *)
(***************************************************************************)
\* The nodes that a THEN->EXEC edge of the list leads to from n.
ThenSuccessors(n) ==
    {e.inNodeID : e \in {x \in Range(graph.edges) :
                             x.outNodeID = n /\ x.outPortID = "THEN" /\ x.inPortID = "EXEC"}}

\* C20: for every edge list, including one whose THEN->EXEC edges form a
\* cycle, get_execution_chain(N, edges) terminates and returns a list that
\* starts with N, holds no node id twice, and in which each element after
\* the first is the THEN->EXEC successor of the element before it; the list
\* ends at the first node that has no successor or whose successor is
\* already in the list.
C20_ChainFollowsThenEdges ==
    pc = "returned" =>
        /\ run.chain # <<>>
        /\ run.chain[1] = run.id
        /\ \A p \in DOMAIN run.chain, q \in DOMAIN run.chain :
              run.chain[p] = run.chain[q] => p = q
        /\ \A k \in DOMAIN run.chain :
              k > 1 => run.chain[k] \in ThenSuccessors(run.chain[k - 1])
        /\ \/ ThenSuccessors(run.chain[Len(run.chain)]) = {}
           \/ ThenSuccessors(run.chain[Len(run.chain)]) \cap Range(run.chain) # {}
        /\ \A k \in DOMAIN run.chain :
              (k < Len(run.chain) /\ Cardinality(ThenSuccessors(run.chain[k])) = 1)
                  => ThenSuccessors(run.chain[k]) \cap {run.chain[j] : j \in 1..k} = {}

C20_Witness ==
    /\ pc = "returned"
    /\ run.chain = <<"a", "b", "c">>
    /\ "a" \in ThenSuccessors("c")
    /\ Len(graph.edges) = 3

(***************************************************************************)
(* Claim about the order among nodes that are ready together               *)
(***************************************************************************)
\* The step at which n becomes ready: the place in the output of the last
\* of its predecessors, 0 when it has none.
ReadyStep(g, ids, n) ==
    LET at == {IndexOf(ids, p[1]) : p \in {q \in EdgePairs(g) : q[2] = n}}
    IN  IF at = {} THEN 0 ELSE CHOOSE m \in at : \A k \in at : k <= m

\* C23 (as stated): topological_sort breaks ties by node declaration order:
\* whenever two or more nodes become ready at the same step, at the start or
\* after a node is emitted, they appear in the output in the order in which
\* the nodes were declared, independent of the order of the edge list.
C23_TiesByDeclarationOrder ==
    (pc = "sorted" /\ ~HasCycle(graph) /\ EdgesDeclared(graph) /\ ordered_ids.err = "none") =>
        \A i \in DOMAIN graph.nodes, j \in DOMAIN graph.nodes :
            (i < j /\ ReadyStep(graph, ordered_ids.ids, graph.nodes[i].id)
                        = ReadyStep(graph, ordered_ids.ids, graph.nodes[j].id))
                => Before(ordered_ids.ids, graph.nodes[i].id, graph.nodes[j].id)

(***************************************************************************)
(* Claim about the order of the emitted constructor lines                  *)
(***************************************************************************)
\* The identifiers bound by the lines before line k of the program.
DefinedBefore(file, k) ==
    {file.program[j].id : j \in {i \in 1..(k - 1) : file.program[i].op \in {"const", "block"}}}

\* C25: in the program emitted by pipeline, every node that is referenced as
\* an input or field argument when a node is instantiated has itself been
\* instantiated (or, for a Constant, bound to its literal) on an earlier
\* line, for every acyclic graph accepted by topological_sort; the run of the
\* program meets no undefined identifier.
C25_ArgumentsDefinedEarlier ==
    (pc # "start" /\ ~HasCycle(graph) /\ ordered_ids.err = "none" /\ ~out_file.empty) =>
        /\ \A k \in DOMAIN out_file.program :
              out_file.program[k].op = "block" =>
                  \A j \in DOMAIN out_file.program[k].params :
                      \/ out_file.program[k].params[j][2] = "None"
                      \/ out_file.program[k].params[j][2] \in DefinedBefore(out_file, k)
        /\ pc = "ran" => run.err # "NameError"

C25_Witness ==
    /\ pc = "ran"
    /\ ~out_file.empty
    /\ \E k \in DOMAIN out_file.program, i \in DOMAIN graph.nodes, j \in DOMAIN graph.nodes :
          /\ out_file.program[k].op = "block"
          /\ out_file.program[k].id = graph.nodes[i].id
          /\ i < j
          /\ graph.nodes[j].name # "Constant"
          /\ \E p \in DOMAIN out_file.program[k].params :
                out_file.program[k].params[p][2] = graph.nodes[j].id
    /\ run.executed

(***************************************************************************)
(* SpecBody: get_substack_blocks and get_substackelse_blocks on every list *)
(* of up to MaxEdges edges over three node ids: body edges of a and b on   *)
(* the three body ports, and THEN->EXEC edges that chain the targets.      *)
(***************************************************************************)
BodyEdgeUniverse ==
    {Edge("a", "SUBSTACK", "b", "EXEC"), Edge("a", "SUBSTACK", "c", "EXEC"),
     Edge("a", "SUBSTACK_IF", "c", "EXEC"), Edge("a", "SUBSTACK_ELSE", "b", "EXEC"),
     Edge("a", "SUBSTACK_ELSE", "c", "EXEC"), Edge("a", "THEN", "b", "EXEC"),
     Edge("b", "THEN", "c", "EXEC"), Edge("c", "THEN", "b", "EXEC"),
     Edge("b", "SUBSTACK", "c", "EXEC")}

InitBody ==
    /\ pc = "start"
    /\ \E es \in SeqsUpTo(BodyEdgeUniverse, MaxEdges), id \in {"a", "b"} :
          /\ graph = [nodes |-> <<>>, edges |-> es]
          /\ run = [id |-> id, ports |-> {}, blocks |-> <<>>]
    /\ ordered_ids = "unused"
    /\ agent_b_graph = "unused"
    /\ node_reference = "unused"
    /\ wiring = "unused"
    /\ agent_a_graph = "unused"
    /\ out_file = "unused"

\* blocks = get_substack_blocks(id, edges)
GetSubstackBlocks ==
    /\ pc = "start"
    /\ run' = [run EXCEPT !.ports = {"SUBSTACK", "SUBSTACK_IF"},
                          !.blocks = get_substack_blocks(run.id, graph.edges)]
    /\ pc' = "returned"
    /\ UNCHANGED <<graph, ordered_ids, agent_b_graph, node_reference, agent_a_graph, wiring,
                   out_file>>

\* blocks = get_substackelse_blocks(id, edges)
GetSubstackElseBlocks ==
    /\ pc = "start"
    /\ run' = [run EXCEPT !.ports = {"SUBSTACK_ELSE"},
                          !.blocks = get_substackelse_blocks(run.id, graph.edges)]
    /\ pc' = "returned"
    /\ UNCHANGED <<graph, ordered_ids, agent_b_graph, node_reference, agent_a_graph, wiring,
                   out_file>>

NextBody == GetSubstackBlocks \/ GetSubstackElseBlocks

SpecBody == InitBody /\ [][NextBody]_vars

(***************************************************************************)
(* Claim about the body lists                                              *)
(***************************************************************************)
\* The edges that leave id on one of the ports asked for.
BodyEdgesOf(id, ports) ==
    SelectSeq(graph.edges, LAMBDA e : e.outNodeID = id /\ e.outPortID \in ports)

\* C21 (as stated): get_substack_blocks(id, edges) returns the empty list
\* when node id has no outgoing edge on port SUBSTACK or SUBSTACK_IF, and
\* otherwise returns exactly the linear chain that starts at the target of
\* that body edge; get_substackelse_blocks does the same for port
\* SUBSTACK_ELSE, and edges on the other body port or on THEN never
\* contribute to the result.
C21_BodyIsOneChain ==
    pc = "returned" =>
        IF BodyEdgesOf(run.id, run.ports) = <<>> THEN run.blocks = <<>>
        ELSE \E k \in DOMAIN BodyEdgesOf(run.id, run.ports) :
                run.blocks = get_execution_chain(BodyEdgesOf(run.id, run.ports)[k].inNodeID,
                                                 graph.edges)

(***************************************************************************)
(* SpecCompound: one control block built through the constructors and      *)
(* add_to_substack / add_to_else_substack, with blocks as inputs and body  *)
(* lists of up to MaxBody blocks, optionally followed by a next block; the *)
(* block is evaluated on its own, or the script that starts at it is run.  *)
(* run holds the heap, the context before and the outcome.                 *)
(***************************************************************************)
Arg(port, value) == [port |-> port, lit |-> value, arg |-> <<>>]
ArgBlock(port, d) == [port |-> port, lit |-> NoneV, arg |-> <<d>>]

Blk(name, ins, fields, body, orelse) ==
    [name |-> name, ins |-> ins, fields |-> fields, body |-> body, orelse |-> orelse]

MouseDown == Blk("MouseDown", <<>>, EmptyFn, <<>>, <<>>)
ChangeX == Blk("ChangeVariableBy", <<Arg("VALUE", IntV(3))>>, OfX, <<>>, <<>>)
SetX == Blk("SetVariable", <<Arg("VALUE", IntV(5))>>, OfX, <<>>, <<>>)
Right90 == Blk("TurnRight", <<Arg("DEGREES", IntV(90))>>, EmptyFn, <<>>, <<>>)
Move5 == Blk("MoveSteps", <<Arg("STEPS", IntV(5))>>, EmptyFn, <<>>, <<>>)
SixByThree ==
    Blk("Divide", <<Arg("NUM1", IntV(6)), Arg("NUM2", IntV(3))>>, EmptyFn, <<>>, <<>>)

Conditions ==
    {MouseDown,
     Blk("Equals", <<Arg("OPERAND1", IntV(5)), Arg("OPERAND2", IntV(5))>>, EmptyFn, <<>>, <<>>),
     Blk("Equals", <<ArgBlock("OPERAND1", ChangeX), Arg("OPERAND2", IntV(5))>>, EmptyFn,
         <<>>, <<>>)}

NestedIf == Blk("If", <<ArgBlock("CONDITION", MouseDown)>>, EmptyFn, <<Move5>>, <<>>)

Bodies == SeqsUpTo({ChangeX, Right90, NestedIf}, MaxBody)
ElseBodies == SeqsUpTo({SetX, NestedIf}, MaxBody)

Statements ==
    {Blk(name, <<ArgBlock("CONDITION", c)>>, EmptyFn, b, <<>>) :
        name \in {"If", "RepeatUntil"}, c \in Conditions, b \in Bodies}
    \cup {Blk("IfElse", <<ArgBlock("CONDITION", c)>>, EmptyFn, b, e) :
             c \in Conditions, b \in Bodies, e \in ElseBodies}
    \cup {Blk("Repeat", <<t>>, EmptyFn, b, <<>>) :
             t \in {Arg("TIMES", IntV(2)), ArgBlock("TIMES", SixByThree)}, b \in Bodies}
    \cup {Blk("Wait", <<s>>, EmptyFn, <<>>, <<>>) :
             s \in {Arg("SECS", IntV(1)), ArgBlock("SECS", SixByThree)}}
    \cup {Blk("WaitUntil", <<ArgBlock("CONDITION", c)>>, EmptyFn, <<>>, <<>>) :
             c \in Conditions}

StartContexts == {DefaultContext, ctx_set(DefaultContext, "mouse_down", BoolV(TRUE))}

\* The lines that build block id from its description: the blocks it takes
\* as inputs, its constructor, then each body block and the call adding it.
RECURSIVE BlockLines(_, _)
BlockLines(id, d) ==
    LET cid(k) == id \o "_c" \o ToString(k)
        bid(j) == id \o "_b" \o ToString(j)
        eid(j) == id \o "_e" \o ToString(j)
        at(p)  == CHOOSE k \in DOMAIN d.ins : d.ins[k].port = p
        held   == SelectSeq([k \in DOMAIN d.ins |-> k], LAMBDA k : d.ins[k].arg # <<>>)
    IN  Flatten([k \in DOMAIN d.ins |->
                    IF d.ins[k].arg = <<>> THEN <<>> ELSE BlockLines(cid(k), d.ins[k].arg[1])])
        \o <<Stmt("make", id, d.name,
                  [inputs |-> [p \in {d.ins[k].port : k \in DOMAIN d.ins} |->
                                  IF d.ins[at(p)].arg = <<>> THEN d.ins[at(p)].lit
                                  ELSE BlockV(cid(at(p)))],
                   fields |-> d.fields],
                  [k \in DOMAIN held |-> d.ins[held[k]].port], "")>>
        \o Flatten([j \in DOMAIN d.body |->
                      BlockLines(bid(j), d.body[j])
                      \o <<Stmt("add_to_substack", id, "", NoneV, <<>>, bid(j))>>])
        \o Flatten([j \in DOMAIN d.orelse |->
                      BlockLines(eid(j), d.orelse[j])
                      \o <<Stmt("add_to_else_substack", id, "", NoneV, <<>>, eid(j))>>])

\* Block s1 and, when there is one, its next block s2.
CompoundLines(stmt, follower) ==
    BlockLines("s1", stmt)
    \o Flatten([k \in DOMAIN follower |->
                   BlockLines("s2", follower[k])
                   \o <<Stmt("connect_next", "s1", "", NoneV, <<>>, "s2")>>])

InitCompound ==
    /\ pc = "built"
    /\ \E stmt \in Statements, follower \in {<<>>, <<SetX>>} :
          out_file = [empty |-> FALSE, error |-> "none",
                      program |-> CompoundLines(stmt, follower), heads |-> <<"s1">>]
    /\ \E ctx \in StartContexts :
          run = [heap |-> run_program(out_file).heap, context |-> ctx,
                 outcome |-> Res(ctx, <<>>, "unset", <<>>)]
    /\ graph = "unused"
    /\ ordered_ids = "unused"
    /\ agent_b_graph = "unused"
    /\ node_reference = "unused"
    /\ wiring = "unused"
    /\ agent_a_graph = "unused"

\* s1.execute(context)
EvaluateBlock ==
    /\ pc = "built"
    /\ run' = [run EXCEPT !.outcome = Exec(run.heap, "s1", run.context)]
    /\ pc' = "evaluated"
    /\ UNCHANGED <<graph, ordered_ids, agent_b_graph, node_reference, agent_a_graph, wiring,
                   out_file>>

\* program._execute_script(s1, context)
ExecuteScript ==
    /\ pc = "built"
    /\ run' = [run EXCEPT !.outcome = execute_script(run.heap, BlockV("s1"), run.context)]
    /\ pc' = "ran"
    /\ UNCHANGED <<graph, ordered_ids, agent_b_graph, node_reference, agent_a_graph, wiring,
                   out_file>>

NextCompound == EvaluateBlock \/ ExecuteScript

SpecCompound == InitCompound /\ [][NextCompound]_vars

(***************************************************************************)
(* Claims about the control blocks                                         *)
(***************************************************************************)
\* The blocks that block id holds as inputs, and its body lists (the else
\* list after the if list).
InputBlocksOf(heap, id) ==
    {heap[id].inputs[p].s : p \in {q \in DOMAIN heap[id].inputs : heap[id].inputs[q].t = "block"}}

BodyOf(heap, id) ==
    [j \in DOMAIN (heap[id].substack \o heap[id].substack2) |->
        (heap[id].substack \o heap[id].substack2)[j].s]

\* Block id with everything beneath it.
RECURSIVE Subtree(_, _)
Subtree(heap, id) ==
    {id} \cup UNION {Subtree(heap, c) : c \in InputBlocksOf(heap, id) \cup Range(BodyOf(heap, id))}

\* The step at which the execute method of block x was entered, 0 if never.
EnteredAt(x) == IndexOf(run.outcome.log, x)

\* Whatever was evaluated of X was evaluated before anything of Y.
Ordered(X, Y) ==
    \A x \in X, y \in Y : (EnteredAt(x) # 0 /\ EnteredAt(y) # 0) => EnteredAt(x) < EnteredAt(y)

\* C22 (as stated): every compound block (Repeat, If, IfElse, RepeatUntil)
\* evaluates its condition or count input block before any block of its
\* body, then its body blocks in list order, an IfElse its else-body blocks
\* in list order after the if-body, and each sub-block (nested compounds
\* included) is complete before the next one starts.
C22_ConditionThenBodyInOrder ==
    pc # "built" =>
        \A id \in Range(run.outcome.log) :
            run.heap[id].name \in {"Repeat", "If", "IfElse", "RepeatUntil"} =>
                /\ \A c \in InputBlocksOf(run.heap, id) :
                      /\ EnteredAt(id) < EnteredAt(c)
                      /\ Count(run.outcome.log, c) = 1
                      /\ \A j \in DOMAIN BodyOf(run.heap, id) :
                            Ordered(Subtree(run.heap, c), Subtree(run.heap, BodyOf(run.heap, id)[j]))
                /\ \A j, k \in DOMAIN BodyOf(run.heap, id) :
                      j < k =>
                          /\ Ordered(Subtree(run.heap, BodyOf(run.heap, id)[j]),
                                     Subtree(run.heap, BodyOf(run.heap, id)[k]))
                          /\ EnteredAt(BodyOf(run.heap, id)[k]) # 0
                                => EnteredAt(BodyOf(run.heap, id)[j]) # 0
                /\ (run.outcome.err = "none" /\ run.heap[id].name # "If") =>
                      \A j \in DOMAIN BodyOf(run.heap, id) :
                          Count(run.outcome.log, BodyOf(run.heap, id)[j]) = 1

\* The kinds of block whose execute writes to the context.
Writers ==
    {"MoveSteps", "TurnRight", "TurnLeft", "PointInDirection", "SetVariable", "ChangeVariableBy"}

\* Nothing beneath block id writes to the context.
ReadsOnly(heap, id) == \A x \in Subtree(heap, id) \ {id} : heap[x].name \notin Writers

InputsOutcome == EvalInputs(run.heap, InputsToEval(run.heap["s1"]), run.context)

\* C27 (as stated): when the condition of a single-armed If block evaluates
\* to false, none of the blocks of its body list is evaluated and the context
\* is exactly what it was after evaluating the condition; when the condition
\* is true, every body block is evaluated exactly once, in list order.
C27_IfBodyFollowsCondition ==
    (pc = "evaluated" /\ run.heap["s1"].name = "If") =>
        /\ ~truthy(InputsOutcome.val[1]) =>
              /\ \A j \in DOMAIN BodyOf(run.heap, "s1") :
                    Subtree(run.heap, BodyOf(run.heap, "s1")[j]) \cap Range(run.outcome.log) = {}
              /\ run.outcome.ctx = InputsOutcome.ctx
        /\ truthy(InputsOutcome.val[1]) =>
              /\ \A j \in DOMAIN BodyOf(run.heap, "s1") :
                    Count(run.outcome.log, BodyOf(run.heap, "s1")[j]) = 1
              /\ \A j, k \in DOMAIN BodyOf(run.heap, "s1") :
                    j < k => EnteredAt(BodyOf(run.heap, "s1")[j])
                                 < EnteredAt(BodyOf(run.heap, "s1")[k])

(***************************************************************************)
(* SpecWire: the pipeline and the run of its program on graphs of one      *)
(* trigger t and three MoveSteps nodes a, b, c fed by one Constant, with   *)
(* every list of up to MaxEdges THEN->EXEC edges among them (forward ones, *)
(* and c -> a, which can close a cycle).                                   *)
(***************************************************************************)
WireEdgeUniverse ==
    {Edge("t", "THEN", "a", "EXEC"), Edge("t", "THEN", "b", "EXEC"),
     Edge("t", "THEN", "c", "EXEC"), Edge("a", "THEN", "b", "EXEC"),
     Edge("a", "THEN", "c", "EXEC"), Edge("b", "THEN", "c", "EXEC"),
     Edge("c", "THEN", "a", "EXEC")}

WireGraph(es) ==
    [nodes |-> <<Node("t", "WhenFlagClicked", NoneV), Node("k", "Constant", IntV(5)),
                 Node("a", "MoveSteps", NoneV), Node("b", "MoveSteps", NoneV),
                 Node("c", "MoveSteps", NoneV)>>,
     edges |-> <<Edge("k", "", "a", "STEPS"), Edge("k", "", "b", "STEPS"),
                 Edge("k", "", "c", "STEPS")>> \o es]

InitWire ==
    /\ pc = "start"
    /\ \E es \in SeqsUpTo(WireEdgeUniverse, MaxEdges) : graph = WireGraph(es)
    /\ ordered_ids = NoOutcome
    /\ agent_b_graph = "unused"
    /\ node_reference = "unused"
    /\ wiring = "unused"
    /\ agent_a_graph = "unused"
    /\ out_file = NoFile
    /\ run = run_program(NoFile)

SpecWire == InitWire /\ [][Next]_vars

(***************************************************************************)
(* Claim about the next-chains of the built program                        *)
(***************************************************************************)
\* The targets of the THEN->EXEC edges that leave n, in edge-list order.
ThenTargets(n) ==
    LET es == SelectSeq(graph.edges, LAMBDA e : e.outNodeID = n /\ e.outPortID = "THEN"
                                                   /\ e.inPortID = "EXEC")
    IN  [k \in DOMAIN es |-> es[k].inNodeID]

\* C26: for every acyclic graph and every block node N, the blocks walked
\* from N through next_block in the built program (one connect_next call per
\* THEN->EXEC edge, in edge-list order) are get_execution_chain(N, edges);
\* with several THEN->EXEC edges leaving a node, both follow the target of
\* the last one.  The script of the trigger evaluates exactly that chain.
C26_NextChainIsExecutionChain ==
    (pc = "ran" /\ ~out_file.empty) =>
        /\ \A k \in DOMAIN graph.nodes :
              graph.nodes[k].name # "Constant" =>
                  ChainOf(run.heap, BlockV(graph.nodes[k].id))
                      = get_execution_chain(graph.nodes[k].id, graph.edges)
        /\ \A id \in DOMAIN run.heap :
              run.heap[id].next_block =
                  IF ThenTargets(id) = <<>> THEN NoneV
                  ELSE BlockV(ThenTargets(id)[Len(ThenTargets(id))])
        /\ run.executed
        /\ run.err = "none"
        /\ run.log = get_execution_chain("t", graph.edges)

C26_Witness ==
    /\ pc = "ran"
    /\ ~out_file.empty
    /\ SubSeq(graph.edges, 4, Len(graph.edges))
           = <<Edge("t", "THEN", "a", "EXEC"), Edge("t", "THEN", "b", "EXEC"),
               Edge("b", "THEN", "c", "EXEC")>>
    /\ ChainOf(run.heap, BlockV("t")) = <<"t", "b", "c">>
    /\ run.log = <<"t", "b", "c">>

====
